---- MODULE Spec2Model ----
(***************************************************************************)
(* Ingestion scheduling and completeness pipeline of Crypto-Tool:          *)
(* the scheduler lock file, the per-job loops, the candle store, the gap   *)
(* detector, the completeness gate and the bounded backfill executor.      *)
(* Each component has its own specification over the shared variables.     *)
(***************************************************************************)
EXTENDS Integers, Sequences, FiniteSets, TLC

VARIABLES
    lock_file,   \* the file at SCHEDULER_LOCK_PATH
    acq,         \* per process: position inside _acquire_lock
    candles,     \* table candles, rows in insertion (id) order
    snapshots,   \* table market_snapshots
    op,          \* the store operation last executed, its input and outcome
    gd,          \* a call of detect_gaps: its arguments and its result
    started,     \* _state.started
    stop_event,  \* _state.stop_event: 0 for None, else the number of the Event
    ev_set,      \* the Events that have been set
    gen,         \* how many Events start_scheduler has created
    tasks,       \* _state.tasks: job -> number of its task, 0 for no entry
    locks,       \* _state.locks: job -> number of its Lock, 0 for no entry
    job_stats,   \* _state.job_stats
    lock_path,   \* _state.lock_path is set
    task,        \* every task start_scheduler created: position in _job_loop
    stop_call,   \* the stop_scheduler call in progress
    start_ret,   \* what the last start_scheduler call returned
    bf,          \* a call of execute_backfill: arguments, locals, result
    runs,        \* the upserts of two jobs: those still to run and those run
    snap         \* the snapshot collector task: position in _snapshot_loop

lockVars == <<lock_file, acq>>
storeVars == <<candles, snapshots, op>>
schedVars == <<started, stop_event, ev_set, gen, tasks, locks, job_stats, lock_path,
               task, stop_call, start_ret>>
vars == <<lock_file, acq, candles, snapshots, op, gd, runs, snap, schedVars, bf>>

(***************************************************************************)
(* Lock file (app/jobs/scheduler.py, app/jobs/snapshot_collector.py)       *)
(***************************************************************************)
NumProcs == 2
Procs == 1..NumProcs
\* a pid recorded by a scheduler that crashed without cleanup
StalePid == NumProcs + 1
AlivePids == Procs

NoFile == [exists |-> FALSE, creator |-> 0, written |-> FALSE, pid |-> 0]
\* files a dead process can leave behind: a complete payload, a payload
\* without a usable "pid" (data.get("pid", -1)), a file created but never written
StaleFile == [exists |-> TRUE, creator |-> 0, written |-> TRUE, pid |-> StalePid]
NoPidFile == [exists |-> TRUE, creator |-> 0, written |-> TRUE, pid |-> 0 - 1]
EmptyFile == [exists |-> TRUE, creator |-> 0, written |-> FALSE, pid |-> 0]

_pid_alive_positive(pid) == pid > 0

\* os.kill(pid, 0) succeeds exactly for a live process
_pid_alive(pid) == pid > 0 /\ pid \in AlivePids

\* json.load of the file: None when it is missing or holds no complete payload
_read_lock_pid(f) ==
    IF f.exists /\ f.written THEN [none |-> FALSE, pid |-> f.pid]
    ELSE [none |-> TRUE, pid |-> 0]

\* creates counts the os.open attempts of the call, found is the file the
\* first attempt met
AcqIdle == [pc |-> "open", read |-> [none |-> TRUE, pid |-> 0], ret |-> FALSE,
            creates |-> 0, found |-> NoFile]

\* os.open(lock_path, O_CREAT | O_EXCL | O_WRONLY)
OsOpen(p) ==
    /\ acq[p].pc = "open"
    /\ \/ /\ ~lock_file.exists
          /\ lock_file' = [exists |-> TRUE, creator |-> p, written |-> FALSE, pid |-> 0]
          /\ acq' = [acq EXCEPT ![p].pc = "write",
                                ![p].creates = @ + 1,
                                ![p].found = IF acq[p].creates = 0 THEN lock_file ELSE @]
       \/ /\ lock_file.exists          \* FileExistsError
          /\ acq' = [acq EXCEPT ![p].pc = "read",
                                ![p].creates = @ + 1,
                                ![p].found = IF acq[p].creates = 0 THEN lock_file ELSE @]
          /\ UNCHANGED lock_file

\* json.dump(payload, f) through the descriptor OsOpen returned; return True.
\* The descriptor names the inode p created, also after another process has
\* unlinked it: the write then changes nothing visible at lock_path.
WritePayload(p) ==
    /\ acq[p].pc = "write"
    /\ \/ /\ lock_file.exists /\ lock_file.creator = p
          /\ lock_file' = [lock_file EXCEPT !.written = TRUE, !.pid = p]
       \/ /\ ~(lock_file.exists /\ lock_file.creator = p)
          /\ UNCHANGED lock_file
    /\ acq' = [acq EXCEPT ![p].pc = "done", ![p].ret = TRUE]

\* pid = _read_lock_pid(lock_path)
ReadLockPid(p) ==
    /\ acq[p].pc = "read"
    /\ acq' = [acq EXCEPT ![p].pc = "alive", ![p].read = _read_lock_pid(lock_file)]
    /\ UNCHANGED lock_file

\* if pid is not None and _pid_alive(pid): return False
CheckOwner(p) ==
    /\ acq[p].pc = "alive"
    /\ \/ /\ ~acq[p].read.none /\ _pid_alive(acq[p].read.pid)
          /\ acq' = [acq EXCEPT ![p].pc = "done", ![p].ret = FALSE]
       \/ /\ ~(~acq[p].read.none /\ _pid_alive(acq[p].read.pid))
          /\ acq' = [acq EXCEPT ![p].pc = "remove"]
    /\ UNCHANGED lock_file

\* os.remove(lock_path): a missing file returns False, otherwise retry
OsRemove(p) ==
    /\ acq[p].pc = "remove"
    /\ \/ /\ lock_file.exists
          /\ lock_file' = NoFile
          /\ acq' = [acq EXCEPT ![p].pc = "open"]
       \/ /\ ~lock_file.exists
          /\ acq' = [acq EXCEPT ![p].pc = "done", ![p].ret = FALSE]
          /\ UNCHANGED lock_file

\* _release_lock: os.remove(lock_path), a missing file is not an error
_release_lock(p) ==
    /\ acq[p].pc = "done" /\ acq[p].ret
    /\ \/ /\ lock_file.exists
          /\ lock_file' = NoFile
       \/ /\ ~lock_file.exists
          /\ UNCHANGED lock_file
    /\ acq' = [acq EXCEPT ![p].pc = "released"]

_acquire_lock(p) ==
    \/ OsOpen(p)
    \/ WritePayload(p)
    \/ ReadLockPid(p)
    \/ CheckOwner(p)
    \/ OsRemove(p)


(***************************************************************************)
(* Time, datetimes and sequences                                           *)
(***************************************************************************)
\* a datetime: wall-clock seconds, and its utc offset when it is tz-aware
Naive(t) == [none |-> FALSE, wall |-> t, aware |-> FALSE, off |-> 0]
Aware(t, o) == [none |-> FALSE, wall |-> t, aware |-> TRUE, off |-> o]
NoneDt == [none |-> TRUE, wall |-> 0, aware |-> FALSE, off |-> 0]

\* naive values are taken as UTC, aware ones are converted to UTC
_to_utc(dt) ==
    IF ~dt.aware THEN Aware(dt.wall, 0) ELSE Aware(dt.wall - dt.off, 0)

\* dt.timestamp() of a UTC datetime
Epoch(dt) == _to_utc(dt).wall

MinOf(S) == CHOOSE x \in S : \A y \in S : x <= y
MaxOf(S) == CHOOSE x \in S : \A y \in S : x >= y

RECURSIVE SortedSeq(_)
\* sorted(S) of a finite set of integers
SortedSeq(S) ==
    IF S = {} THEN <<>> ELSE <<MinOf(S)>> \o SortedSeq(S \ {MinOf(S)})

RECURSIVE SumSeq(_)
SumSeq(q) == IF q = <<>> THEN 0 ELSE Head(q) + SumSeq(Tail(q))

Range(q) == {q[i] : i \in 1..Len(q)}
\* the interval boundaries in [a, b)
Boundaries(a, b, step) == {k * step : k \in ((a + step - 1) \div step)..((b - 1) \div step)}

(***************************************************************************)
(* Candle store (app/db/models.py, services/ingestion/candles_ingestion.py)*)
(***************************************************************************)
\* interval -> seconds, as services/candles.py knows them
INTERVALS == [i \in {"1m", "5m", "1d"} |->
                 IF i = "1m" THEN 60 ELSE IF i = "5m" THEN 300 ELSE 86400]

\* the unique constraints of table candles: uq_candles_coin_interval_ts
CandleUniqueIndexes == {{"coin", "interval", "ts"}}
\* index_elements of the ON CONFLICT clause of upsert_candles
ConflictTarget == {"source", "coin", "interval", "ts"}
OhlcvFields == {"open", "high", "low", "close", "volume"}

Proj(r, cols) == [c \in cols |-> r[c]]

\* values = [...] of upsert_candles: one table row per input dict
CandleValues(r) ==
    [source |-> r.source, coin |-> r.coin, interval |-> r.interval,
     ts |-> Epoch(r.timestamp),
     open |-> r.open, high |-> r.high, low |-> r.low, close |-> r.close,
     volume |-> r.volume]

\* faulty variant: a table without the unique constraint
ViolatesUniqueNever(tab, v) == FALSE

\* a row that would break a unique index of the table
ViolatesUnique(tab, v) ==
    \E ix \in CandleUniqueIndexes : \E i \in 1..Len(tab) : Proj(tab[i], ix) = Proj(v, ix)

RECURSIVE UpsertRows(_, _)
\* INSERT ... ON CONFLICT (ConflictTarget) DO UPDATE SET open, high, low, close,
\* volume = excluded.*, row by row; an IntegrityError aborts the statement
UpsertRows(tab, vals) ==
    IF vals = <<>> THEN [err |-> "none", tab |-> tab]
    ELSE LET v == Head(vals)
             hit == {i \in 1..Len(tab) : Proj(tab[i], ConflictTarget) = Proj(v, ConflictTarget)}
         IN  IF hit # {}
             THEN UpsertRows([i \in 1..Len(tab) |->
                                 IF i \in hit
                                 THEN [c \in DOMAIN tab[i] |->
                                          IF c \in OhlcvFields THEN v[c] ELSE tab[i][c]]
                                 ELSE tab[i]],
                             Tail(vals))
             ELSE IF ViolatesUnique(tab, v)
                  THEN [err |-> "IntegrityError", tab |-> tab]
                  ELSE UpsertRows(Append(tab, v), Tail(vals))

\* faulty variant: a plain INSERT with no conflict handling and no constraint
upsert_candles_append(tab, rows) ==
    [err |-> "none", tab |-> tab \o [i \in 1..Len(rows) |-> CandleValues(rows[i])],
     n |-> Len(rows)]

\* faulty variant: an upsert whose conflict target is ts alone
upsert_candles_by_ts(tab, rows) ==
    LET v == CandleValues(rows[1])
        hit == {i \in 1..Len(tab) : tab[i].ts = v.ts}
    IN  IF rows = <<>> THEN [err |-> "none", tab |-> tab, n |-> 0]
        ELSE [err |-> "none",
              tab |-> IF hit = {} THEN Append(tab, v)
                      ELSE [i \in 1..Len(tab) |->
                               IF i \in hit
                               THEN [c \in DOMAIN tab[i] |->
                                        IF c \in OhlcvFields THEN v[c] ELSE tab[i][c]]
                               ELSE tab[i]],
              n |-> Len(rows)]

\* upsert_candles(session, rows): the statement is rejected when its conflict
\* target is not one of the table's unique indexes
upsert_candles(tab, rows) ==
    IF rows = <<>> THEN [err |-> "none", tab |-> tab, n |-> 0]
    ELSE LET vals == [i \in 1..Len(rows) |-> CandleValues(rows[i])]
             res == UpsertRows(tab, vals)
         IN  IF ConflictTarget \notin CandleUniqueIndexes
             THEN [err |-> "OperationalError", tab |-> tab, n |-> 0]
             ELSE IF res.err # "none"
                  THEN [err |-> res.err, tab |-> tab, n |-> 0]
                  ELSE [err |-> "none", tab |-> res.tab, n |-> Len(vals)]

RECURSIVE InsertRows(_, _)
InsertRows(tab, vals) ==
    IF vals = <<>> THEN [err |-> "none", tab |-> tab]
    ELSE IF ViolatesUnique(tab, Head(vals))
         THEN [err |-> "IntegrityError", tab |-> tab]
         ELSE InsertRows(Append(tab, Head(vals)), Tail(vals))

\* faulty variant: a commit that stores the rows whatever their keys
add_all_commit_unchecked(tab, rows) ==
    [err |-> "none", tab |-> tab \o [i \in 1..Len(rows) |-> CandleValues(rows[i])],
     n |-> Len(rows)]

\* faulty variant: a commit that replaces the table by the rows of the batch
add_all_commit_replacing(tab, rows) ==
    [err |-> "none", tab |-> [i \in 1..Len(rows) |-> CandleValues(rows[i])],
     n |-> Len(rows)]

\* session.add_all(rows); session.commit(): plain INSERTs in one transaction
add_all_commit(tab, rows) ==
    LET res == InsertRows(tab, [i \in 1..Len(rows) |-> CandleValues(rows[i])])
    IN  IF res.err # "none" THEN [err |-> res.err, tab |-> tab, n |-> 0]
        ELSE [err |-> "none", tab |-> res.tab, n |-> Len(rows)]

\* get_candles(coin, interval, start_ts): snapshots bucketed into candles
get_candles(snaps, coin, interval, start_ts) ==
    LET seconds == INTERVALS[interval]
        \* if start_ts: query.where(MarketSnapshot.timestamp >= start_ts)
        rows == {s \in snaps : s.coin_id = coin
                                /\ (start_ts.none \/ s.timestamp >= Epoch(start_ts))}
        bucket(s) == (s.timestamp \div seconds) * seconds
        buckets == SortedSeq({bucket(s) : s \in rows})
        snapsOf(b) ==
            LET ts == SortedSeq({s.timestamp : s \in {x \in rows : bucket(x) = b}})
            IN  [i \in 1..Len(ts) |-> CHOOSE s \in rows : s.timestamp = ts[i]]
        candle(b) ==
            LET sn == snapsOf(b)
                prices == [i \in 1..Len(sn) |-> sn[i].price]
            IN  [timestamp |-> Naive(b),
                 open |-> prices[1],
                 high |-> MaxOf(Range(prices)),
                 low |-> MinOf(Range(prices)),
                 close |-> prices[Len(prices)],
                 volume |-> SumSeq([i \in 1..Len(sn) |-> sn[i].volume])]
    IN  [i \in 1..Len(buckets) |-> candle(buckets[i])]

\* for c in candles: c["coin"] = coin; c["interval"] = interval; c["source"] = source
Tagged(cs, coin, interval, source) ==
    [i \in 1..Len(cs) |->
        [timestamp |-> cs[i].timestamp, open |-> cs[i].open, high |-> cs[i].high,
         low |-> cs[i].low, close |-> cs[i].close, volume |-> cs[i].volume,
         coin |-> coin, interval |-> interval, source |-> source]]

\* ingest_range(session, coin, interval, start_ts, end_ts)
ingest_range(tab, snaps, coin, interval, start_ts, end_ts) ==
    LET s == _to_utc(start_ts)
        e == _to_utc(end_ts)
        cs == get_candles(snaps, coin, interval, s)
        kept == SelectSeq(cs, LAMBDA c : Epoch(s) <= Epoch(c.timestamp)
                                         /\ Epoch(c.timestamp) < Epoch(e))
    IN  upsert_candles(tab, Tagged(kept, coin, interval, "local"))

\* _latest_ts: ts of the newest stored candle of (source, coin, interval), or None
_latest_ts(tab, source, coin, interval) ==
    LET mine == {i \in 1..Len(tab) : tab[i].source = source /\ tab[i].coin = coin
                                      /\ tab[i].interval = interval}
    IN  IF mine = {} THEN NoneDt ELSE Naive(MaxOf({tab[i].ts : i \in mine}))

\* ingest_latest(session, coin, interval)
ingest_latest(tab, snaps, coin, interval) ==
    LET latest == _latest_ts(tab, "local", coin, interval)
        cs == get_candles(snaps, coin, interval, latest)
    IN  upsert_candles(tab, Tagged(cs, coin, interval, "local"))

(***************************************************************************)
(* Gap detector (app/services/ingestion/gap_detector.py)                   *)
(***************************************************************************)
RECURSIVE GapWalk(_, _, _, _, _, _, _)
\* the while loop of detect_gaps: ot is sorted(set(open_times)), n is the length
\* of the list as it was passed in; ot[i] beyond the shortened list is an IndexError
GapWalk(ot, n, step_seconds, end_epoch, expected, i, gaps) ==
    IF ~(expected < end_epoch) THEN [err |-> "none", gaps |-> gaps]
    ELSE IF i < n /\ i >= Len(ot) THEN [err |-> "IndexError", gaps |-> gaps]
    ELSE IF i < n /\ ot[i + 1] = expected
         THEN GapWalk(ot, n, step_seconds, end_epoch, expected + step_seconds, i + 1, gaps)
         ELSE LET next_existing == IF i < n THEN ot[i + 1] ELSE end_epoch
                  gap_end == IF next_existing < end_epoch THEN next_existing ELSE end_epoch
              IN  GapWalk(ot, n, step_seconds, end_epoch, gap_end, i,
                          Append(gaps, <<expected, gap_end>>))

RECURSIVE MergeGaps(_, _)
\* "Merge adjacent gaps"
MergeGaps(gaps, merged) ==
    IF gaps = <<>> THEN merged
    ELSE LET g == Head(gaps)
         IN  IF merged = <<>> THEN MergeGaps(Tail(gaps), <<g>>)
             ELSE LET p == merged[Len(merged)]
                  IN  IF g[1] <= p[2]
                      THEN MergeGaps(Tail(gaps),
                                     [merged EXCEPT ![Len(merged)] =
                                         <<p[1], IF p[2] >= g[2] THEN p[2] ELSE g[2]>>])
                      ELSE MergeGaps(Tail(gaps), Append(merged, g))

\* faulty variant: nothing stored is taken for nothing missing
detect_gaps_empty_is_full(open_times, step_seconds, start_epoch, end_epoch) ==
    IF start_epoch >= end_epoch \/ open_times = <<>> THEN [err |-> "none", gaps |-> <<>>]
    ELSE LET w == GapWalk(SortedSeq(Range(open_times)), Len(open_times), step_seconds,
                          end_epoch, start_epoch, 0, <<>>)
         IN  IF w.err # "none" THEN [err |-> w.err, gaps |-> <<>>]
             ELSE [err |-> "none", gaps |-> MergeGaps(w.gaps, <<>>)]

\* detect_gaps(open_times, step_seconds, start_epoch, end_epoch)
detect_gaps(open_times, step_seconds, start_epoch, end_epoch) ==
    IF start_epoch >= end_epoch THEN [err |-> "none", gaps |-> <<>>]
    ELSE IF open_times = <<>> THEN [err |-> "none", gaps |-> <<<<start_epoch, end_epoch>>>>]
    ELSE LET w == GapWalk(SortedSeq(Range(open_times)), Len(open_times), step_seconds,
                          end_epoch, start_epoch, 0, <<>>)
         IN  IF w.err # "none" THEN [err |-> w.err, gaps |-> <<>>]
             ELSE [err |-> "none", gaps |-> MergeGaps(w.gaps, <<>>)]

(***************************************************************************)
(* Completeness checker (app/services/completeness.py)                     *)
(***************************************************************************)
\* interval -> seconds, as utils/intervals.py knows them
INTERVAL_SECONDS == [i \in {"1m", "5m", "1d"} |->
                        IF i = "1m" THEN 60 ELSE IF i = "5m" THEN 300 ELSE 86400]
get_interval_seconds(interval) == INTERVAL_SECONDS[interval]

\* get_existing_candle_times(session, coin, interval, start_ts, end_ts):
\* the open times stored for (coin, interval) inside [start_ts, end_ts)
get_existing_candle_times(tab, coin, interval, start_ts, end_ts) ==
    {tab[i].ts : i \in {j \in 1..Len(tab) : /\ tab[j].coin = coin
                                            /\ tab[j].interval = interval
                                            /\ tab[j].ts >= Epoch(start_ts)
                                            /\ tab[j].ts < Epoch(end_ts)}}

RECURSIVE BoundaryWalk(_, _, _, _, _, _)
\* walk the boundaries cur, cur + step, ... below range_end; open is the start of
\* the gap being extended (or -1), a gap stops at the next present boundary or
\* at range_end
BoundaryWalk(existing, step, range_end, cur, open, gaps) ==
    IF cur >= range_end
    THEN IF open >= 0 THEN Append(gaps, [start |-> open, end |-> range_end]) ELSE gaps
    ELSE IF cur \in existing
         THEN BoundaryWalk(existing, step, range_end, cur + step, 0 - 1,
                           IF open >= 0 THEN Append(gaps, [start |-> open, end |-> cur])
                           ELSE gaps)
         ELSE BoundaryWalk(existing, step, range_end, cur + step,
                           IF open >= 0 THEN open ELSE cur, gaps)

\* detect_gaps(existing, interval, start_ts, end_ts) as completeness.py calls it:
\* floor range_start to its interval boundary and emit one gap per maximal
\* missing run
detect_gaps_between(existing, interval, start_ts, end_ts) ==
    LET step == get_interval_seconds(interval)
        floored == (Epoch(start_ts) \div step) * step
    IN  BoundaryWalk(existing, step, Epoch(end_ts), floored, 0 - 1, <<>>)

\* missing = int((gap.end - gap.start).total_seconds() / interval_seconds)
missing_candles(gap_start, gap_end, interval_seconds) ==
    (gap_end - gap_start) \div interval_seconds

\* generate_gap_report(session, coin=, interval=, start_ts=, end_ts=)
generate_gap_report(tab, coin, interval, start_ts, end_ts) ==
    LET interval_seconds == get_interval_seconds(interval)
        s == _to_utc(start_ts)
        e == _to_utc(end_ts)
        existing == get_existing_candle_times(tab, coin, interval, s, e)
        gaps == detect_gaps_between(existing, interval, s, e)
    IN  [coin |-> coin, interval |-> interval, start_ts |-> Epoch(s), end_ts |-> Epoch(e),
         gaps |-> [i \in 1..Len(gaps) |->
                      [start |-> gaps[i].start, end |-> gaps[i].end,
                       missing_candles |-> missing_candles(gaps[i].start, gaps[i].end,
                                                          interval_seconds)]]]

\* faulty variant: a report that never admits a gap
gaps_found_never(report) == FALSE

\* GapReport.gaps_found, GapReport.gap_count
gaps_found(report) == report.gaps # <<>>
gap_count(report) == Len(report.gaps)

\* faulty variant: a gate that lets a single gap through
ensure_no_gaps_lenient(tab, coin, interval, start_ts, end_ts) ==
    LET report == generate_gap_report(tab, coin, interval, start_ts, end_ts)
    IN  IF gap_count(report) > 1
        THEN [err |-> "DataIncompleteError", report |-> report]
        ELSE [err |-> "none", report |-> report]

\* ensure_no_gaps: raise DataIncompleteError(report) when the report has gaps
ensure_no_gaps(tab, coin, interval, start_ts, end_ts) ==
    LET report == generate_gap_report(tab, coin, interval, start_ts, end_ts)
    IN  IF gaps_found(report)
        THEN [err |-> "DataIncompleteError", report |-> report]
        ELSE [err |-> "none", report |-> report]

NoReport == [coin |-> "", interval |-> "", start_ts |-> 0, end_ts |-> 0, gaps |-> <<>>]
NoOp == [name |-> "none", rows |-> <<>>, coin |-> "", interval |-> "",
         start |-> 0, end |-> 0, before |-> <<>>, err |-> "none", n |-> 0,
         rep |-> "none", report |-> NoReport, strict |-> FALSE,
         findings |-> [duplicates |-> {}, non_monotonic |-> {}]]

\* the snapshot collector has not been started; outs are the outcomes of the
\* feed calls of the current _fetch_with_retries call, fetch_raises counts the
\* calls of it that raised
NoSnap == [pc |-> "idle", max_retries |-> 0, attempt |-> 0, outs |-> <<>>,
           fetched |-> "none", data |-> <<>>, cycle |-> 0, now |-> 0, stop |-> FALSE,
           last_success_utc |-> 0 - 1, errors |-> 0, fetch_raises |-> 0]

\* no job upserts under way
NoRuns == [store |-> <<>>, all |-> <<<<>>, <<>>>>, todo |-> <<<<>>, <<>>>>, order |-> <<>>]

\* bound of the store model: rows the table holds at most
MaxRows == 2

Coins == {"bitcoin", "ethereum"}
StoreKeys ==
    {[coin |-> "bitcoin", interval |-> "1m", ts |-> 0],
     [coin |-> "bitcoin", interval |-> "1m", ts |-> INTERVALS["1m"]],
     [coin |-> "bitcoin", interval |-> "5m", ts |-> 0]}
\* two candles whose five value fields all differ
OhlcvA == [open |-> 1, high |-> 2, low |-> 1, close |-> 2, volume |-> 3]
OhlcvB == [open |-> 4, high |-> 5, low |-> 3, close |-> 3, volume |-> 0]
RowKinds == {<<"local", OhlcvA>>, <<"local", OhlcvB>>, <<"external", OhlcvB>>}

InputRow(src, k, v) ==
    [source |-> src, coin |-> k.coin, interval |-> k.interval,
     timestamp |-> Naive(k.ts),
     open |-> v.open, high |-> v.high, low |-> v.low, close |-> v.close,
     volume |-> v.volume]
\* the dicts a caller hands to upsert_candles, or the Candle objects it adds
InputRows == {InputRow(rk[1], k, rk[2]) : rk \in RowKinds, k \in StoreKeys}
FirstRow == InputRow("local", [coin |-> "bitcoin", interval |-> "1m", ts |-> 0], OhlcvA)
\* one row, or two rows in one statement (the second may repeat the first's key)
Batches == {<<r>> : r \in InputRows} \cup {<<FirstRow, r>> : r \in InputRows}

SnapshotUniverse ==
    {[coin_id |-> "bitcoin", timestamp |-> 30, price |-> 2, volume |-> 1],
     [coin_id |-> "bitcoin", timestamp |-> INTERVALS["1m"], price |-> 1, volume |-> 2]}

\* windows handed to ingest_range: naive and offset-aware datetimes
TzOffset == 60 * 60
WindowStarts == {Naive(0), Aware(30 + TzOffset, TzOffset)}
WindowEnds == {Naive(INTERVALS["1m"]), Aware(2 * INTERVALS["1m"], 0)}
IngestJobs == {<<"bitcoin", "1m">>, <<"bitcoin", "5m">>}
\* ranges handed to the completeness check
CheckRanges == {<<Naive(0), Naive(INTERVALS["1m"])>>, <<Naive(0), Naive(2 * INTERVALS["1m"])>>,
                <<Naive(30), Naive(2 * INTERVALS["1m"])>>, <<Naive(0), Naive(INTERVALS["5m"])>>}

\* a caller's upsert_candles(session, rows) and commit
Upsert(rows) ==
    LET r == upsert_candles(candles, rows)
    IN  /\ Len(r.tab) <= MaxRows
        /\ candles' = r.tab
        /\ op' = [NoOp EXCEPT !.name = "upsert", !.rows = rows, !.before = candles,
                              !.err = r.err, !.n = r.n]
        /\ UNCHANGED <<snapshots, lockVars, gd, runs, snap, schedVars, bf>>

\* a caller's session.add_all(rows) and commit (the tests' seeding and fills)
AddAllCommit(rows) ==
    LET r == add_all_commit(candles, rows)
    IN  /\ Len(r.tab) <= MaxRows
        /\ candles' = r.tab
        /\ op' = [NoOp EXCEPT !.name = "add_all", !.rows = rows, !.before = candles,
                              !.err = r.err, !.n = r.n]
        /\ UNCHANGED <<snapshots, lockVars, gd, runs, snap, schedVars, bf>>

\* how a window relates to the window of the ingest_range call just before it
Repeats(coin, interval, s, e) ==
    IF op.name = "ingest_range" /\ op.coin = coin /\ op.interval = interval
    THEN IF op.start = s /\ op.end = e THEN "same"
         ELSE IF s < op.end /\ op.start < e THEN "overlap" ELSE "none"
    ELSE "none"

IngestRange(coin, interval, start_ts, end_ts) ==
    LET r == ingest_range(candles, snapshots, coin, interval, start_ts, end_ts)
    IN  /\ Len(r.tab) <= MaxRows
        /\ candles' = r.tab
        /\ op' = [NoOp EXCEPT !.name = "ingest_range", !.coin = coin, !.interval = interval,
                              !.start = Epoch(start_ts), !.end = Epoch(end_ts),
                              !.before = candles, !.err = r.err, !.n = r.n,
                              !.rep = Repeats(coin, interval, Epoch(start_ts), Epoch(end_ts))]
        /\ UNCHANGED <<snapshots, lockVars, gd, runs, snap, schedVars, bf>>

\* one scheduler run: _run_ingestion -> ingest_latest
IngestLatest(coin, interval) ==
    LET r == ingest_latest(candles, snapshots, coin, interval)
    IN  /\ Len(r.tab) <= MaxRows
        /\ candles' = r.tab
        /\ op' = [NoOp EXCEPT !.name = "ingest_latest", !.coin = coin, !.interval = interval,
                              !.before = candles, !.err = r.err, !.n = r.n]
        /\ UNCHANGED <<snapshots, lockVars, gd, runs, snap, schedVars, bf>>


\* faulty variant: a check that stores a placeholder candle at the start of the
\* first gap it finds
EnsureNoGapsFills(coin, interval, start_ts, end_ts) ==
    LET r == ensure_no_gaps(candles, coin, interval, start_ts, end_ts)
        placeholder == CandleValues(InputRow("local",
                           [coin |-> coin, interval |-> interval,
                            ts |-> r.report.gaps[1].start], OhlcvA))
    IN  /\ op' = [NoOp EXCEPT !.name = "ensure_no_gaps", !.coin = coin, !.interval = interval,
                              !.start = Epoch(start_ts), !.end = Epoch(end_ts),
                              !.before = candles, !.err = r.err, !.report = r.report]
        /\ candles' = IF r.err # "none" /\ Len(candles) < MaxRows
                      THEN Append(candles, placeholder) ELSE candles
        /\ UNCHANGED <<snapshots, lockVars, gd, runs, snap, schedVars, bf>>

\* a consumer's ensure_no_gaps(session, coin=, interval=, start_ts=, end_ts=)
EnsureNoGaps(coin, interval, start_ts, end_ts) ==
    LET r == ensure_no_gaps(candles, coin, interval, start_ts, end_ts)
    IN  /\ op' = [NoOp EXCEPT !.name = "ensure_no_gaps", !.coin = coin, !.interval = interval,
                              !.start = Epoch(start_ts), !.end = Epoch(end_ts),
                              !.before = candles, !.err = r.err, !.report = r.report]
        /\ UNCHANGED <<candles, snapshots, lockVars, gd, runs, snap, schedVars, bf>>

\* no call in progress
NoCall == [pc |-> "idle", open_times |-> <<>>, step_seconds |-> 0, start_epoch |-> 0,
           end_epoch |-> 0, out |-> [err |-> "none", gaps |-> <<>>]]

Null == [none |-> TRUE, report |-> NoReport]
NoCaps == [window_limit |-> FALSE, gap_limit |-> FALSE, candle_limit |-> FALSE]
NoResult == [completed |-> FALSE, remaining_gaps |-> Null, error |-> "none",
             gaps_fixed |-> 0, candles_added |-> 0, caps_hit |-> NoCaps,
             start_ts |-> 0, end_ts |-> 0]
\* (called_with lists the ranges the ingestion collaborator was called with;
\* left records how the loop was left: by its while condition, by the break on
\* inserted == 0, or by the break on a gap count that did not decrease)
\* execute_backfill(coin=, interval=, start_ts=, end_ts=, max_gaps=, max_candles=,
\* ingest_fn=) at its entry; kind names the ingest_fn
BackfillCall(kind, coin, interval, start_ts, end_ts, max_gaps, max_candles) ==
    [pc |-> "called", kind |-> kind, coin |-> coin, interval |-> interval,
     requested |-> start_ts, start_ts |-> start_ts, end_ts |-> end_ts,
     max_gaps |-> max_gaps, max_candles |-> max_candles,
     caps_hit |-> NoCaps, current_report |-> NoReport,
     gaps_fixed |-> 0, candles_added |-> 0, iterations |-> 0, calls |-> 0,
     raised |-> "none", left |-> "none", called_with |-> <<>>, result |-> NoResult]
NoBackfill == [BackfillCall("none", "", "", 0, 0, 0, 0) EXCEPT !.pc = "idle"]

(***************************************************************************)
(* Scheduler (app/jobs/scheduler.py), one process                          *)
(***************************************************************************)
\* os.getpid() of the process whose scheduler is modelled, and another live one
Self == 1
Other == 2
\* bounds: Events start_scheduler creates, failures counted in a row
MaxStarts == 2
MaxFailures == 2

\* settings.INGEST_COINS x settings.INGEST_INTERVALS; job_id = "ingest:coin:interval"
Jobs == IngestJobs
Gens == 1..MaxStarts
TaskIds == Jobs \X Gens

NoTask == [pc |-> "none", ev |-> 0, cancel |-> FALSE]
\* failed_since is history: the failed runs since the entry was created or
\* since the last successful run, whichever is later
NoStats == [present |-> FALSE, consecutive_failures |-> 0,
            last_success_inserted |-> 0 - 1, last_success_ms |-> 0 - 1,
            last_error |-> "none", last_error_len |-> 0, failed_since |-> 0]
\* the dict start_scheduler stores for a job (None is -1 / "none")
FreshStats == [present |-> TRUE, consecutive_failures |-> 0,
               last_success_inserted |-> 0 - 1, last_success_ms |-> 0 - 1,
               last_error |-> "none", last_error_len |-> 0, failed_since |-> 0]

\* the slice bound of repr(e)[:300]
ErrorLimit == 300
\* len(repr(e)): "ConnectionError()" is short, the repr of the driver's
\* OperationalError carries the whole INSERT statement
ReprLen(err) == IF err = "OperationalError" THEN 3 * ErrorLimit ELSE 17

\* _schedule_seconds_for(interval) without an INGEST_SCHEDULE_SECONDS entry
_schedule_seconds_for(interval) ==
    LET sec == INTERVALS[interval]
        half == IF sec \div 2 < sec THEN sec \div 2 ELSE sec
    IN  IF half > 15 THEN half ELSE 15

\* dt_ms of a run: longer than the schedule when the run overruns its tick
RunMs(interval, overrun) ==
    IF overrun THEN _schedule_seconds_for(interval) * 1000 + 1 ELSE 1

\* the stats after a successful run
OnSuccess(js, inserted, dt_ms) ==
    [js EXCEPT !.last_success_inserted = inserted,
               !.last_success_ms = dt_ms,
               !.consecutive_failures = 0,
               !.failed_since = 0]

\* faulty variant: a failure that leaves the counter as it is
OnFailureKeeps(js, err) ==
    [js EXCEPT !.last_error = err,
               !.last_error_len = IF ReprLen(err) < ErrorLimit THEN ReprLen(err)
                                  ELSE ErrorLimit,
               !.failed_since = @ + 1]

\* the stats after a run that raised: except Exception as e
OnFailure(js, err) ==
    [js EXCEPT !.last_error = err,
               !.last_error_len = IF ReprLen(err) < ErrorLimit THEN ReprLen(err)
                                  ELSE ErrorLimit,
               !.consecutive_failures = js.consecutive_failures + 1,
               !.failed_since = @ + 1]
StopIdle == [pc |-> "idle", tasks |-> {}]

\* _state = SchedulerState()
SchedulerState ==
    /\ started = FALSE /\ stop_event = 0 /\ ev_set = {} /\ gen = 0
    /\ tasks = [j \in Jobs |-> 0] /\ locks = [j \in Jobs |-> 0]
    /\ job_stats = [j \in Jobs |-> NoStats]
    /\ lock_path = FALSE
    /\ task = [t \in TaskIds |-> NoTask]
    /\ stop_call = StopIdle
    /\ start_ret = "none"

\* SchedulerHandle.running
running == started /\ stop_event # 0 /\ stop_event \notin ev_set

\* the lock file a live scheduler in another process holds
ForeignFile == [exists |-> TRUE, creator |-> Other, written |-> TRUE, pid |-> Other]

\* faulty variant: the lock is taken whatever the file records
AcquireLockCallSteal(f, p) ==
    [ok |-> TRUE, file |-> [exists |-> TRUE, creator |-> p, written |-> TRUE, pid |-> p]]

\* faulty variant: the file of a live owner is removed before the call gives up
AcquireLockCallRemoves(f, p) ==
    LET mine == [exists |-> TRUE, creator |-> p, written |-> TRUE, pid |-> p]
        pid == _read_lock_pid(f)
    IN  IF ~f.exists THEN [ok |-> TRUE, file |-> mine]
        ELSE IF ~pid.none /\ _pid_alive(pid.pid) THEN [ok |-> FALSE, file |-> NoFile]
             ELSE [ok |-> TRUE, file |-> mine]

\* _acquire_lock(path, payload) run by p while no other process touches the file
AcquireLockCall(f, p) ==
    LET mine == [exists |-> TRUE, creator |-> p, written |-> TRUE, pid |-> p]
        pid == _read_lock_pid(f)
    IN  IF ~f.exists THEN [ok |-> TRUE, file |-> mine]
        ELSE IF ~pid.none /\ _pid_alive(pid.pid) THEN [ok |-> FALSE, file |-> f]
             ELSE [ok |-> TRUE, file |-> mine]

\* faulty variant: start_scheduler creating a task for a job that still has one
SkipsJobNever(job) == FALSE

\* if job_id in _state.tasks: continue
SkipsJob(job) == tasks[job] # 0

start_scheduler ==
    /\ gen < MaxStarts
    /\ IF running
       THEN /\ start_ret' = "handle"
            /\ UNCHANGED <<lock_file, started, stop_event, gen, tasks, locks, job_stats,
                           lock_path, task>>
       ELSE LET a == AcquireLockCall(lock_file, Self)
                lock_pid == _read_lock_pid(lock_file)
            IN  IF ~a.ok /\ ~(~lock_pid.none /\ lock_pid.pid = Self)
                THEN /\ start_ret' = "refused"
                     \* the file as _acquire_lock left it
                     /\ lock_file' = a.file
                     /\ UNCHANGED <<started, stop_event, gen, tasks, locks,
                                    job_stats, lock_path, task>>
                ELSE LET g == gen + 1
                         new == {j \in Jobs : ~SkipsJob(j)}
                     IN  /\ lock_file' = a.file
                         /\ lock_path' = TRUE
                         /\ gen' = g /\ stop_event' = g
                         /\ started' = TRUE
                         \* _state.job_stats.clear(), then one entry per created task
                         /\ job_stats' = [j \in Jobs |-> IF j \in new THEN FreshStats
                                                         ELSE NoStats]
                         /\ locks' = [j \in Jobs |-> IF j \in new THEN g ELSE locks[j]]
                         /\ tasks' = [j \in Jobs |-> IF j \in new THEN g ELSE tasks[j]]
                         /\ task' = [t \in TaskIds |->
                                        IF t[1] \in new /\ t[2] = g
                                        THEN [pc |-> "new", ev |-> g, cancel |-> FALSE]
                                        ELSE task[t]]
                         /\ start_ret' = "handle"
    /\ UNCHANGED <<ev_set, stop_call, acq, storeVars, gd, runs, snap, bf>>

\* faulty variant: a job that gives up after a failed run
LoopHeadGivesUp(t, evs, stats, due) ==
    IF task[t].ev \in evs \/ stats[t[1]].consecutive_failures > 0 THEN "done"
    ELSE IF ~due THEN "wait"
         ELSE IF stats[t[1]].present THEN "run" ELSE "failed"

\* faulty variant: the loop is left once a run has ended
LoopHeadLeaves(t, evs, stats, due) ==
    IF task[t].pc = "run" \/ task[t].ev \in evs THEN "done"
    ELSE IF ~due THEN "wait"
         ELSE IF stats[t[1]].present THEN "run" ELSE "failed"

\* _job_loop from the loop head to its next await, with the stop Event as it is
\* in evs and the stats as they are in stats: leave the loop, wait for the next
\* tick, or take the lock and start a run (a missing stats entry is a KeyError
\* that the handler raises again)
LoopHead(t, evs, stats, due) ==
    IF task[t].ev \in evs THEN "done"
    ELSE IF ~due THEN "wait"
         ELSE IF stats[t[1]].present THEN "run" ELSE "failed"

\* the task is scheduled for the first time: next_tick = now
TaskBegin(t) ==
    /\ task[t].pc = "new" /\ ~task[t].cancel
    /\ task' = [task EXCEPT ![t].pc = LoopHead(t, ev_set, job_stats, TRUE)]
    /\ UNCHANGED <<lock_file, started, stop_event, ev_set, gen, tasks, locks, job_stats,
                   lock_path, stop_call, start_ret, acq, storeVars, gd, runs, snap, bf>>

\* wait_for(stop_event.wait(), timeout) returns: the Event was set or the tick is due
WaitOver(t) ==
    /\ task[t].pc = "wait" /\ ~task[t].cancel
    /\ task' = [task EXCEPT ![t].pc = LoopHead(t, ev_set, job_stats, TRUE)]
    /\ UNCHANGED <<lock_file, started, stop_event, ev_set, gen, tasks, locks, job_stats,
                   lock_path, stop_call, start_ret, acq, storeVars, gd, runs, snap, bf>>

\* await _run_ingestion(symbol, interval) returns or raises; transient is a
\* failure outside the store (connection, feed), overrun a run longer than the
\* schedule
RunEnds(t, transient, overrun) ==
    LET job == t[1]
        r == ingest_latest(candles, snapshots, job[1], job[2])
        err == IF transient THEN "ConnectionError" ELSE r.err
        js == job_stats[job]
        stats == IF ~js.present THEN job_stats
                 ELSE IF err = "none"
                      THEN [job_stats EXCEPT
                               ![job] = OnSuccess(js, r.n, RunMs(job[2], overrun))]
                      ELSE [job_stats EXCEPT ![job] = OnFailure(js, err)]
    IN  /\ task[t].pc = "run" /\ ~task[t].cancel
        /\ (err # "none" /\ js.present) => js.consecutive_failures < MaxFailures
        /\ candles' = IF err = "none" THEN r.tab ELSE candles
        /\ job_stats' = stats
        /\ task' = [task EXCEPT ![t].pc = IF ~js.present THEN "failed"
                                          ELSE LoopHead(t, ev_set, stats, overrun)]
        /\ UNCHANGED <<lock_file, started, stop_event, ev_set, gen, tasks, locks,
                       lock_path, stop_call, start_ret, acq, snapshots, op, gd, runs, snap, bf>>

\* faulty variant: a run that is shielded from cancellation
TaskCancelledShielded(t) ==
    /\ task[t].cancel /\ task[t].pc \in {"new", "wait"}
    /\ task' = [task EXCEPT ![t].pc = "cancelled"]
    /\ UNCHANGED <<lock_file, started, stop_event, ev_set, gen, tasks, locks, job_stats,
                   lock_path, stop_call, start_ret, acq, storeVars, gd, runs, snap, bf>>

\* CancelledError is raised at the await the task is suspended in
TaskCancelled(t) ==
    /\ task[t].cancel /\ task[t].pc \in {"new", "wait", "run"}
    /\ task' = [task EXCEPT ![t].pc = "cancelled"]
    /\ UNCHANGED <<lock_file, started, stop_event, ev_set, gen, tasks, locks, job_stats,
                   lock_path, stop_call, start_ret, acq, storeVars, gd, runs, snap, bf>>

\* faulty variant: gather() returning while tasks are still running
FinishedAlways(t) == TRUE

\* Task.done()
Finished(t) == task[t].pc \in {"done", "failed", "cancelled"}

\* the finally block of stop_scheduler
StopFinally ==
    /\ tasks' = [j \in Jobs |-> 0]
    /\ locks' = [j \in Jobs |-> 0]
    /\ started' = FALSE
    /\ stop_event' = 0
    /\ lock_file' = IF lock_path THEN NoFile ELSE lock_file
    /\ lock_path' = FALSE
    /\ job_stats' = [j \in Jobs |-> NoStats]
    /\ stop_call' = StopIdle

\* stop_scheduler up to its await
StopBegin ==
    /\ stop_call.pc = "idle"
    /\ IF ~started
       THEN UNCHANGED <<lock_file, started, stop_event, ev_set, tasks, locks, job_stats,
                        lock_path, stop_call>>
       ELSE LET ts == {<<j, tasks[j]>> : j \in {k \in Jobs : tasks[k] # 0}}
            IN  /\ ev_set' = IF stop_event # 0 THEN ev_set \cup {stop_event} ELSE ev_set
                /\ IF ts = {}
                   THEN StopFinally
                   ELSE /\ stop_call' = [pc |-> "await", tasks |-> ts]
                        /\ UNCHANGED <<lock_file, started, stop_event, tasks, locks,
                                       job_stats, lock_path>>
    /\ UNCHANGED <<gen, task, start_ret, acq, storeVars, gd, runs, snap, bf>>

\* wait_for(gather(*tasks), timeout_s) times out: every task not done is cancelled
StopTimeout ==
    /\ stop_call.pc = "await"
    /\ \E t \in stop_call.tasks : ~Finished(t)
    /\ task' = [t \in TaskIds |->
                   IF t \in stop_call.tasks /\ ~Finished(t)
                   THEN [task[t] EXCEPT !.cancel = TRUE] ELSE task[t]]
    /\ stop_call' = [stop_call EXCEPT !.pc = "cancelling"]
    /\ UNCHANGED <<lock_file, started, stop_event, ev_set, gen, tasks, locks, job_stats,
                   lock_path, start_ret, acq, storeVars, gd, runs, snap, bf>>

\* gather(*tasks) is complete: the finally block runs and stop_scheduler returns
StopReturns ==
    /\ stop_call.pc \in {"await", "cancelling"}
    /\ \A t \in stop_call.tasks : Finished(t)
    /\ StopFinally
    /\ UNCHANGED <<ev_set, gen, task, start_ret, acq, storeVars, gd, runs, snap, bf>>

\* the scheduler of the other process stops and releases the lock it holds
OtherReleases ==
    /\ lock_file.exists /\ lock_file.pid = Other
    /\ lock_file' = NoFile
    /\ UNCHANGED <<acq, storeVars, gd, runs, snap, schedVars, bf>>

InitSched ==
    /\ SchedulerState
    /\ lock_file \in {NoFile, StaleFile, ForeignFile}
    /\ acq = [p \in Procs |-> AcqIdle]
    /\ candles = <<>> /\ snapshots \in {{}, SnapshotUniverse} /\ op = NoOp
    /\ gd = NoCall /\ runs = NoRuns /\ snap = NoSnap /\ bf = NoBackfill

NextSched ==
    \/ start_scheduler
    \/ \E t \in TaskIds : TaskBegin(t)
    \/ \E t \in TaskIds : WaitOver(t)
    \/ \E t \in TaskIds, transient, overrun \in BOOLEAN : RunEnds(t, transient, overrun)
    \/ \E t \in TaskIds : TaskCancelled(t)
    \/ StopBegin
    \/ StopTimeout
    \/ StopReturns
    \/ OtherReleases

SpecSched == InitSched /\ [][NextSched]_vars

\* the event loop keeps running while stop_scheduler waits: the timer of
\* wait_for fires, a cancelled task gets its CancelledError, a complete gather
\* wakes stop_scheduler up; nothing makes an ingestion run end
StopFairness ==
    /\ WF_vars(StopTimeout)
    /\ WF_vars(StopReturns)
    /\ \A t \in TaskIds : WF_vars(TaskCancelled(t))
SpecSchedLive == InitSched /\ [][NextSched]_vars /\ StopFairness

(***************************************************************************)
(* Store invariants (app/db/invariants.py)                                 *)
(***************************************************************************)
\* _DUPLICATE_CANDLES_SQL: GROUP BY coin, interval, ts HAVING count > 1
Duplicates(tab) ==
    {k \in {Proj(tab[i], {"coin", "interval", "ts"}) : i \in 1..Len(tab)} :
        Cardinality({i \in 1..Len(tab) : Proj(tab[i], {"coin", "interval", "ts"}) = k}) > 1}

RECURSIVE OrderByTs(_, _)
\* the row numbers in idx ordered by ts
OrderByTs(tab, idx) ==
    IF idx = {} THEN <<>>
    ELSE LET i == CHOOSE x \in idx : \A y \in idx :
                     tab[x].ts < tab[y].ts \/ (tab[x].ts = tab[y].ts /\ x <= y)
         IN  <<i>> \o OrderByTs(tab, idx \ {i})

\* _NON_MONOTONIC_SQL: LAG(ts) OVER (PARTITION BY coin, interval ORDER BY ts),
\* rows WHERE prev_ts IS NOT NULL AND ts < prev_ts
NonMonotonic(tab) ==
    LET series == {Proj(tab[i], {"coin", "interval"}) : i \in 1..Len(tab)}
        ordered(sr) == OrderByTs(tab, {i \in 1..Len(tab) :
                                         Proj(tab[i], {"coin", "interval"}) = sr})
    IN  UNION {{[coin |-> sr.coin, interval |-> sr.interval,
                 ts |-> tab[ordered(sr)[k]].ts, prev_ts |-> tab[ordered(sr)[k - 1]].ts] :
                  k \in {n \in 2..Len(ordered(sr)) :
                            tab[ordered(sr)[n]].ts < tab[ordered(sr)[n - 1]].ts}} :
               sr \in series}

verify_candle_invariants(tab, strict) ==
    LET findings == [duplicates |-> Duplicates(tab), non_monotonic |-> NonMonotonic(tab)]
    IN  [err |-> IF strict /\ (findings.duplicates # {} \/ findings.non_monotonic # {})
                 THEN "AssertionError" ELSE "none",
         findings |-> findings]

\* a caller's verify_candle_invariants(session, strict=strict)
VerifyCandleInvariants(strict) ==
    LET v == verify_candle_invariants(candles, strict)
    IN  /\ op' = [NoOp EXCEPT !.name = "verify", !.strict = strict, !.before = candles,
                              !.err = v.err, !.findings = v.findings]
        /\ UNCHANGED <<candles, snapshots, lockVars, gd, runs, snap, schedVars, bf>>

(***************************************************************************)
(* Backfill executor (app/scripts/backfill.py)                             *)
(***************************************************************************)
MAX_LOOKBACK_DAYS == 30
MAX_GAPS_PER_RUN == 100
MAX_CANDLES_PER_RUN == 10000

\* the ingest_fn handed to execute_backfill:
\*   "fill"   adds a candle for every missing boundary of [gap_start, gap_end)
\*   "first"  adds one candle at gap_start and returns 1 (the tests' fake_ingest)
\*   "zero"   adds nothing and returns 0 (the tests' empty_ingest)
\*   "negative"  adds one candle at gap_start and returns -1
\*   "ingest_range"  the default, candles_ingestion.ingest_range
IngestFns == {"fill", "first", "zero", "negative", "ingest_range"}

FillRow(coin, interval, ts) ==
    InputRow("local", [coin |-> coin, interval |-> interval, ts |-> ts], OhlcvA)

ingest_fn(kind, tab, snaps, coin, interval, gap_start, gap_end) ==
    IF kind = "fill"
    THEN LET have == {tab[i].ts : i \in {j \in 1..Len(tab) :
                                            tab[j].coin = coin /\ tab[j].interval = interval}}
             miss == SortedSeq(Boundaries(gap_start, gap_end, get_interval_seconds(interval))
                               \ have)
         IN  add_all_commit(tab, [i \in 1..Len(miss) |-> FillRow(coin, interval, miss[i])])
    ELSE IF kind = "first"
    THEN LET r == add_all_commit(tab, <<FillRow(coin, interval, gap_start)>>)
         IN  [r EXCEPT !.n = IF r.err = "none" THEN 1 ELSE 0]
    ELSE IF kind = "zero"
    THEN [err |-> "none", tab |-> tab, n |-> 0]
    ELSE IF kind = "negative"
    THEN LET r == add_all_commit(tab, <<FillRow(coin, interval, gap_start)>>)
         IN  [r EXCEPT !.n = 0 - 1]
    ELSE ingest_range(tab, snaps, coin, interval, Aware(gap_start, 0), Aware(gap_end, 0))

\* _fill_gap_segment: the collaborator, then verify_candle_invariants(session)
_fill_gap_segment(kind, tab, snaps, coin, interval, gap_start, gap_end) ==
    LET c == ingest_fn(kind, tab, snaps, coin, interval, gap_start, gap_end)
    IN  IF c.err # "none" THEN c
        ELSE IF verify_candle_invariants(c.tab, TRUE).err # "none"
             THEN [err |-> "AssertionError", tab |-> c.tab, n |-> 0]
             ELSE c

\* faulty variant: a loop that gives up one iteration early
LoopContinuesShort(report, iterations, candles_added, max_gaps, max_candles) ==
    report.gaps # <<>> /\ iterations < max_gaps - 1 /\ candles_added < max_candles

\* faulty variant: a loop that does not look at the iteration count
LoopContinuesUncapped(report, iterations, candles_added, max_gaps, max_candles) ==
    report.gaps # <<>> /\ candles_added < max_candles

\* while current_report.gaps and iterations < max_gaps and candles_added < max_candles
LoopContinues(report, iterations, candles_added, max_gaps, max_candles) ==
    report.gaps # <<>> /\ iterations < max_gaps /\ candles_added < max_candles

\* the range execute_backfill works on: [end - max_window, end) for a longer one
ClampedStartUnbounded(start_ts, end_ts) == start_ts

ClampedStart(start_ts, end_ts) ==
    LET max_window == MAX_LOOKBACK_DAYS * 86400
    IN  IF end_ts - start_ts > max_window THEN end_ts - max_window ELSE start_ts

\* faulty variant: the early return leaves completed at its default
BackfillBeginIncomplete ==
    /\ bf.pc = "called"
    /\ LET start_ts == ClampedStart(bf.start_ts, bf.end_ts)
           caps_hit == [NoCaps EXCEPT !.window_limit = (start_ts # bf.start_ts)]
           report == generate_gap_report(candles, bf.coin, bf.interval,
                                         Aware(start_ts, 0), Aware(bf.end_ts, 0))
       IN  bf' = IF ~gaps_found(report)
                 THEN [bf EXCEPT !.pc = "returned", !.start_ts = start_ts,
                                 !.caps_hit = caps_hit, !.current_report = report,
                                 !.result = [NoResult EXCEPT !.completed = FALSE,
                                                !.caps_hit = caps_hit,
                                                !.start_ts = start_ts,
                                                !.end_ts = bf.end_ts]]
                 ELSE [bf EXCEPT !.pc = "loop", !.start_ts = start_ts,
                                 !.caps_hit = caps_hit, !.current_report = report]
    /\ UNCHANGED <<lockVars, storeVars, gd, runs, snap, schedVars>>

\* execute_backfill up to the loop: clamp, first report, return when it has no gap
BackfillBegin ==
    /\ bf.pc = "called"
    /\ LET start_ts == ClampedStart(bf.start_ts, bf.end_ts)
           caps_hit == [NoCaps EXCEPT !.window_limit = (start_ts # bf.start_ts)]
           report == generate_gap_report(candles, bf.coin, bf.interval,
                                         Aware(start_ts, 0), Aware(bf.end_ts, 0))
       IN  bf' = IF ~gaps_found(report)
                 THEN [bf EXCEPT !.pc = "returned", !.start_ts = start_ts,
                                 !.caps_hit = caps_hit, !.current_report = report,
                                 !.result = [NoResult EXCEPT !.completed = TRUE,
                                                !.caps_hit = caps_hit,
                                                !.start_ts = start_ts,
                                                !.end_ts = bf.end_ts]]
                 ELSE [bf EXCEPT !.pc = "loop", !.start_ts = start_ts,
                                 !.caps_hit = caps_hit, !.current_report = report]
    /\ UNCHANGED <<lockVars, storeVars, gd, runs, snap, schedVars>>

\* faulty variant: the inserted candles are not added to candles_added
AfterFillUncounted(f, gap_report, updated_report) ==
    IF f.err # "none"
    THEN [bf EXCEPT !.pc = "raised", !.raised = f.err, !.calls = bf.calls + 1]
    ELSE IF f.n = 0
    THEN [bf EXCEPT !.pc = "after", !.calls = bf.calls + 1, !.left = "no_progress"]
    ELSE [bf EXCEPT
            !.calls = bf.calls + 1,
            !.iterations = bf.iterations + 1,
            !.gaps_fixed = IF ~gaps_found(gap_report)
                           THEN bf.gaps_fixed + 1 ELSE bf.gaps_fixed,
            !.current_report = updated_report,
            !.left = IF Len(updated_report.gaps) >= Len(bf.current_report.gaps)
                     THEN "non_convergence" ELSE "none",
            !.pc = IF Len(updated_report.gaps) >= Len(bf.current_report.gaps)
                   THEN "after" ELSE "loop"]

\* faulty variant: the loop goes on while the number of gaps does not grow
AfterFillLoose(f, gap_report, updated_report) ==
    IF f.err # "none"
    THEN [bf EXCEPT !.pc = "raised", !.raised = f.err, !.calls = bf.calls + 1]
    ELSE IF f.n = 0
    THEN [bf EXCEPT !.pc = "after", !.calls = bf.calls + 1, !.left = "no_progress"]
    ELSE [bf EXCEPT
            !.calls = bf.calls + 1,
            !.candles_added = bf.candles_added + f.n,
            !.iterations = bf.iterations + 1,
            !.gaps_fixed = IF ~gaps_found(gap_report)
                           THEN bf.gaps_fixed + 1 ELSE bf.gaps_fixed,
            !.current_report = updated_report,
            !.left = IF Len(updated_report.gaps) > Len(bf.current_report.gaps)
                     THEN "non_convergence" ELSE "none",
            !.pc = IF Len(updated_report.gaps) > Len(bf.current_report.gaps)
                   THEN "after" ELSE "loop"]

\* one loop iteration after its fill step f: counters, the report of the gap
\* just worked on, the report of the whole range, and the convergence check
AfterFill(f, gap_report, updated_report) ==
    IF f.err # "none"
    THEN [bf EXCEPT !.pc = "raised", !.raised = f.err, !.calls = bf.calls + 1]
    ELSE IF f.n = 0
    THEN [bf EXCEPT !.pc = "after", !.calls = bf.calls + 1, !.left = "no_progress"]
    ELSE [bf EXCEPT
            !.calls = bf.calls + 1,
            !.candles_added = bf.candles_added + f.n,
            !.iterations = bf.iterations + 1,
            !.gaps_fixed = IF ~gaps_found(gap_report)
                           THEN bf.gaps_fixed + 1 ELSE bf.gaps_fixed,
            !.current_report = updated_report,
            !.left = IF Len(updated_report.gaps) >= Len(bf.current_report.gaps)
                     THEN "non_convergence" ELSE "none",
            !.pc = IF Len(updated_report.gaps) >= Len(bf.current_report.gaps)
                   THEN "after" ELSE "loop"]

\* faulty variant: the loop works on the latest gap
NextGapLatest(report) == report.gaps[Len(report.gaps)]

\* gap = current_report.gaps[0]
NextGap(report) == report.gaps[1]

\* one evaluation of the loop condition and, when it holds, one iteration
BackfillLoop ==
    /\ bf.pc = "loop"
    /\ IF ~LoopContinues(bf.current_report, bf.iterations, bf.candles_added,
                         bf.max_gaps, bf.max_candles)
          \/ bf.max_candles - bf.candles_added <= 0
       THEN bf' = [bf EXCEPT !.pc = "after", !.left = "condition"] /\ UNCHANGED candles
       ELSE \E gap \in {NextGap(bf.current_report)} :
            \E f \in {_fill_gap_segment(bf.kind, candles, snapshots, bf.coin,
                                        bf.interval, gap.start, gap.end)} :
            \E gap_report \in {generate_gap_report(f.tab, bf.coin, bf.interval,
                                                   Aware(gap.start, 0),
                                                   Aware(gap.end, 0))} :
            \E updated_report \in {generate_gap_report(f.tab, bf.coin, bf.interval,
                                                       Aware(bf.start_ts, 0),
                                                       Aware(bf.end_ts, 0))} :
                /\ candles' = f.tab
                /\ bf' = [AfterFill(f, gap_report, updated_report) EXCEPT
                             !.called_with = Append(bf.called_with,
                                                    <<gap.start, gap.end>>)]
    /\ UNCHANGED <<lockVars, snapshots, op, gd, runs, snap, schedVars>>

\* faulty variant: a run that fixed a gap is reported complete
BackfillFinishOptimistic ==
    /\ bf.pc = "after"
    /\ LET caps_hit ==
               [bf.caps_hit EXCEPT
                   !.gap_limit = (bf.current_report.gaps # <<>>
                                  /\ bf.iterations >= bf.max_gaps),
                   !.candle_limit = (bf.current_report.gaps # <<>>
                                     /\ bf.candles_added >= bf.max_candles)]
           v == verify_candle_invariants(candles, TRUE)
           e == ensure_no_gaps(candles, bf.coin, bf.interval,
                               Aware(bf.start_ts, 0), Aware(bf.end_ts, 0))
           common == [NoResult EXCEPT !.gaps_fixed = bf.gaps_fixed,
                                      !.candles_added = bf.candles_added,
                                      !.caps_hit = caps_hit,
                                      !.start_ts = bf.start_ts, !.end_ts = bf.end_ts]
       IN  bf' = [bf EXCEPT
                    !.pc = "returned", !.caps_hit = caps_hit,
                    !.result =
                        IF v.err # "none"
                        THEN [common EXCEPT
                                !.remaining_gaps = [none |-> FALSE,
                                                    report |-> bf.current_report],
                                !.error = v.err]
                        ELSE IF e.err = "none" \/ bf.gaps_fixed > 0
                        THEN [common EXCEPT !.completed = TRUE]
                        ELSE [common EXCEPT
                                !.remaining_gaps = [none |-> FALSE, report |-> e.report]]]
    /\ UNCHANGED <<lockVars, storeVars, gd, runs, snap, schedVars>>

\* after the loop: cap flags, the final invariant check and the final gate
BackfillFinish ==
    /\ bf.pc = "after"
    /\ LET caps_hit ==
               [bf.caps_hit EXCEPT
                   !.gap_limit = (bf.current_report.gaps # <<>>
                                  /\ bf.iterations >= bf.max_gaps),
                   !.candle_limit = (bf.current_report.gaps # <<>>
                                     /\ bf.candles_added >= bf.max_candles)]
           v == verify_candle_invariants(candles, TRUE)
           e == ensure_no_gaps(candles, bf.coin, bf.interval,
                               Aware(bf.start_ts, 0), Aware(bf.end_ts, 0))
           common == [NoResult EXCEPT !.gaps_fixed = bf.gaps_fixed,
                                      !.candles_added = bf.candles_added,
                                      !.caps_hit = caps_hit,
                                      !.start_ts = bf.start_ts, !.end_ts = bf.end_ts]
       IN  bf' = [bf EXCEPT
                    !.pc = "returned", !.caps_hit = caps_hit,
                    !.result =
                        IF v.err # "none"
                        THEN [common EXCEPT
                                !.remaining_gaps = [none |-> FALSE,
                                                    report |-> bf.current_report],
                                !.error = v.err]
                        ELSE IF e.err = "none"
                        THEN [common EXCEPT !.completed = TRUE]
                        ELSE [common EXCEPT
                                !.remaining_gaps = [none |-> FALSE, report |-> e.report]]]
    /\ UNCHANGED <<lockVars, storeVars, gd, runs, snap, schedVars>>

\* stores seeded with candles of one series on some of the boundaries
RECURSIVE SeedRows(_, _, _)
SeedRows(coin, interval, times) ==
    IF times = <<>> THEN <<>>
    ELSE <<CandleValues(FillRow(coin, interval, Head(times)))>>
         \o SeedRows(coin, interval, Tail(times))

\* bounds of the backfill calls: the last boundary slot of the range, the caps
BackfillSlots == 3
BackfillTimes == {k * INTERVALS["1m"] : k \in 0..BackfillSlots}
\* range starts on a boundary and off it
BackfillStarts == {0, 30, INTERVALS["1m"]}
BackfillEnds == {2 * INTERVALS["1m"], (BackfillSlots + 1) * INTERVALS["1m"]}
GapCaps == {1, 2, MAX_GAPS_PER_RUN}
CandleCaps == {1, 2, MAX_CANDLES_PER_RUN}

\* calls over daily candles whose range reaches the maximum lookback: the
\* requested span is longer than the window, equal to it, or shorter, and the
\* range ends on a day boundary or half a day after one
Day == INTERVALS["1d"]
LongStarts == {0, Day}
LongEnds == {(MAX_LOOKBACK_DAYS + 1) * Day, (MAX_LOOKBACK_DAYS + 1) * Day + Day \div 2}
AllDays == {k * Day : k \in 0..(MAX_LOOKBACK_DAYS + 1)}
LongStores == {{}, AllDays, AllDays \ {0}, AllDays \ {2 * Day, 5 * Day}}

InitBackfill ==
    /\ \/ /\ candles \in {SeedRows("bitcoin", "1m", SortedSeq(S)) :
                            S \in SUBSET BackfillTimes}
          /\ bf \in {BackfillCall(k, "bitcoin", "1m", a, b, mg, mc) :
                       k \in IngestFns, a \in BackfillStarts, b \in BackfillEnds,
                       mg \in GapCaps, mc \in CandleCaps}
       \/ /\ candles \in {SeedRows("bitcoin", "1d", SortedSeq(S)) : S \in LongStores}
          /\ bf \in {BackfillCall(k, "bitcoin", "1d", a, b, mg, mc) :
                       k \in IngestFns, a \in LongStarts, b \in LongEnds,
                       mg \in GapCaps, mc \in CandleCaps}
    /\ snapshots = SnapshotUniverse
    /\ op = NoOp
    /\ lock_file = NoFile /\ acq = [p \in Procs |-> AcqIdle]
    /\ gd = NoCall /\ runs = NoRuns /\ snap = NoSnap /\ SchedulerState

NextBackfill ==
    \/ BackfillBegin
    \/ BackfillLoop
    \/ BackfillFinish

\* a call in progress has a next step (the three actions cover every case of
\* the positions below), and every await of the call returns: weak fairness of
\* NextBackfill, written with its enabling condition
InProgress == bf.pc \in {"called", "loop", "after"}
BackfillFairness == []<>(~InProgress) \/ []<><<NextBackfill>>_vars
SpecBackfill == InitBackfill /\ [][NextBackfill]_vars /\ BackfillFairness

\* candles tables whose last row was inserted out of ts order, among them
\* tables created before the unique index existed and holding a key twice:
\* create_all leaves an existing table as it is, and migrations.py expects
\* duplicate rows in it
LegacyStores ==
    {SeedRows("bitcoin", "1m", SortedSeq(S) \o <<t>>) :
        S \in SUBSET BackfillTimes, t \in BackfillTimes}

InitBackfillLegacy ==
    /\ candles \in LegacyStores
    /\ snapshots = SnapshotUniverse
    /\ op = NoOp
    /\ bf \in {BackfillCall(k, "bitcoin", "1m", a, b, mg, mc) :
                 k \in IngestFns, a \in BackfillStarts, b \in BackfillEnds,
                 mg \in GapCaps, mc \in CandleCaps}
    /\ lock_file = NoFile /\ acq = [p \in Procs |-> AcqIdle]
    /\ gd = NoCall /\ runs = NoRuns /\ snap = NoSnap /\ SchedulerState

SpecBackfillLegacy == InitBackfillLegacy /\ [][NextBackfill]_vars

Init ==
    /\ candles = <<>>
    /\ snapshots \in {{}, SnapshotUniverse}
    /\ op = NoOp
    /\ lock_file = NoFile /\ acq = [p \in Procs |-> AcqIdle]
    /\ gd = NoCall /\ runs = NoRuns /\ snap = NoSnap /\ SchedulerState /\ bf = NoBackfill

Next ==
    \/ \E rows \in Batches : Upsert(rows)
    \/ \E rows \in Batches : AddAllCommit(rows)
    \/ \E j \in IngestJobs, a \in WindowStarts, b \in WindowEnds :
          IngestRange(j[1], j[2], a, b)
    \/ \E j \in IngestJobs \cup {<<"ethereum", "1m">>} : IngestLatest(j[1], j[2])
    \/ \E j \in IngestJobs, w \in CheckRanges : EnsureNoGaps(j[1], j[2], w[1], w[2])
    \/ \E strict \in BOOLEAN : VerifyCandleInvariants(strict)

Spec == Init /\ [][Next]_vars

(***************************************************************************)
(* Runs of two jobs, each run one upsert_candles and a commit              *)
(***************************************************************************)
\* bound: the upserts of one job
MaxJobUpserts == 2
\* two jobs with distinct (coin, interval)
UpsertJobs == <<<<"bitcoin", "1m">>, <<"bitcoin", "5m">>>>
\* the rows a run of the job hands to upsert_candles
JobBatches(job) == {<<r>> : r \in {x \in InputRows : x.coin = job[1] /\ x.interval = job[2]}}
JobUpserts(job) == UNION {[1..n -> JobBatches(job)] : n \in 1..MaxJobUpserts}
\* the store the runs start from: empty, or holding a row of the first job
JobStores == {<<>>, <<CandleValues(FirstRow)>>}

RECURSIVE ApplyUpserts(_, _)
\* the store after the upserts of batches, one after the other; a statement
\* that raises leaves the store as it was
ApplyUpserts(tab, batches) ==
    IF batches = <<>> THEN tab
    ELSE ApplyUpserts(upsert_candles(tab, Head(batches)).tab, Tail(batches))

InitJobs ==
    /\ candles \in JobStores
    /\ runs \in {[store |-> candles, all |-> <<a, b>>, todo |-> <<a, b>>, order |-> <<>>] :
                    a \in JobUpserts(UpsertJobs[1]), b \in JobUpserts(UpsertJobs[2])}
    /\ snapshots = {} /\ op = NoOp
    /\ lock_file = NoFile /\ acq = [p \in Procs |-> AcqIdle]
    /\ gd = NoCall /\ SchedulerState /\ bf = NoBackfill /\ snap = NoSnap

\* the next run of job k: upsert_candles(session, rows) and commit
JobUpsert(k) ==
    /\ runs.todo[k] # <<>>
    /\ LET r == upsert_candles(candles, Head(runs.todo[k]))
       IN  /\ candles' = r.tab
           /\ op' = [NoOp EXCEPT !.name = "upsert", !.rows = Head(runs.todo[k]),
                                 !.before = candles, !.err = r.err, !.n = r.n]
    /\ runs' = [runs EXCEPT !.todo[k] = Tail(@), !.order = Append(@, k)]
    /\ UNCHANGED <<snapshots, lockVars, gd, snap, schedVars, bf>>

NextJobs == \E k \in {1, 2} : JobUpsert(k)

SpecJobs == InitJobs /\ [][NextJobs]_vars

(***************************************************************************)
(* Calls of detect_gaps                                                    *)
(***************************************************************************)
\* bounds: the last boundary slot and the longest list handed to detect_gaps
MaxSlot == 3
MaxOpenTimes == 3
StepSeconds == INTERVALS["1m"]
SlotTimes == {k * StepSeconds : k \in 0..MaxSlot}
OpenTimeLists == UNION {[1..n -> SlotTimes] : n \in 0..MaxOpenTimes}
\* range bounds, aligned and not
RangeStarts == SlotTimes \cup {30}
RangeEnds == SlotTimes \cup {150, (MaxSlot + 1) * StepSeconds}

InitGaps ==
    /\ gd \in {[pc |-> "call", open_times |-> ot, step_seconds |-> StepSeconds,
                start_epoch |-> a, end_epoch |-> b, out |-> NoCall.out] :
               ot \in OpenTimeLists, a \in RangeStarts, b \in RangeEnds}
    /\ candles = <<>> /\ snapshots = {} /\ op = NoOp
    /\ lock_file = NoFile /\ acq = [p \in Procs |-> AcqIdle]
    /\ SchedulerState /\ bf = NoBackfill /\ runs = NoRuns /\ snap = NoSnap

DetectGaps ==
    /\ gd.pc = "call"
    /\ gd' = [gd EXCEPT !.pc = "done",
                        !.out = detect_gaps(gd.open_times, gd.step_seconds,
                                            gd.start_epoch, gd.end_epoch)]
    /\ UNCHANGED <<lockVars, storeVars, schedVars, bf, runs, snap>>

NextGaps == DetectGaps

SpecGaps == InitGaps /\ [][NextGaps]_vars

InitLock ==
    /\ lock_file \in {NoFile, StaleFile, NoPidFile, EmptyFile}
    /\ acq = [p \in Procs |-> AcqIdle]
    /\ candles = <<>> /\ snapshots = {} /\ op = NoOp /\ gd = NoCall /\ runs = NoRuns /\ snap = NoSnap
    /\ SchedulerState /\ bf = NoBackfill

NextLock ==
    \E p \in Procs : (_acquire_lock(p) \/ _release_lock(p))
                    /\ UNCHANGED <<storeVars, gd, runs, snap, schedVars, bf>>

SpecLock == InitLock /\ [][NextLock]_vars

(***************************************************************************)
(* Snapshot collector (app/jobs/snapshot_collector.py)                     *)
(***************************************************************************)
WRITE_WINDOW_SECONDS == 60
\* the settings the loop reads; SNAPSHOT_MAX_RETRIES comes from the environment
SNAPSHOT_MAX_RETRIES == 5
SNAPSHOT_INTERVAL_SECONDS == 60
SNAPSHOT_BACKOFF_BASE_SECONDS == 1
RetrySettings == {0, 1, SNAPSHOT_MAX_RETRIES}
\* bound: cycles of the loop that are followed
MaxCycles == 2

\* what one call of fetch_raw_market_data gives: an exception or the payload
FeedPrices == {1, 2}
FeedResults ==
    {[ok |-> FALSE, data |-> <<>>]} \cup
    {[ok |-> TRUE, data |-> <<[id |-> "bitcoin", current_price |-> p, total_volume |-> 1]>>] :
        p \in FeedPrices}

\* faulty variant: gives up one attempt early
fetch_turn_early(attempt, max_retries, r) ==
    IF r.ok THEN [attempt |-> attempt, then |-> "return"]
    ELSE IF attempt + 1 >= max_retries
         THEN [attempt |-> attempt + 1, then |-> "raise"]
         ELSE [attempt |-> attempt + 1, then |-> "sleep"]

\* one turn of the while loop of _fetch_with_retries, r the outcome of its feed call
fetch_turn(attempt, max_retries, r) ==
    IF r.ok THEN [attempt |-> attempt, then |-> "return"]
    ELSE IF attempt + 1 > max_retries
         THEN [attempt |-> attempt + 1, then |-> "raise"]
         ELSE [attempt |-> attempt + 1, then |-> "sleep"]

\* the backoff slept after the attempt-th failure, without its jitter
Backoff(attempt) == SNAPSHOT_BACKOFF_BASE_SECONDS * (2 ^ (attempt - 1))

\* store_market_snapshots(market_data) at time now: one row per coin that has
\* no snapshot inside the write window
store_market_snapshots(snaps, market_data, now) ==
    snaps \cup
    {[coin_id |-> market_data[i].id, timestamp |-> now,
      price |-> market_data[i].current_price, volume |-> market_data[i].total_volume] :
       i \in {j \in 1..Len(market_data) :
                 ~ \E sp \in snaps : /\ sp.coin_id = market_data[j].id
                                      /\ sp.timestamp > now - WRITE_WINDOW_SECONDS}}

\* while not stop_event.is_set(): the next cycle begins with _fetch_with_retries
SnapLoopHead ==
    /\ snap.pc = "head"
    /\ snap.cycle < MaxCycles
    /\ snap' = IF snap.stop THEN [snap EXCEPT !.pc = "stopped"]
               ELSE [snap EXCEPT !.pc = "fetch", !.attempt = 0, !.outs = <<>>,
                                 !.fetched = "none", !.data = <<>>]
    /\ UNCHANGED <<lockVars, storeVars, gd, runs, schedVars, bf>>

\* await fetch_raw_market_data() returns or raises; a raise past the last retry
\* leaves _fetch_with_retries and is caught by the except of the loop
FeedCall(r) ==
    /\ snap.pc = "fetch"
    /\ LET t == fetch_turn(snap.attempt, snap.max_retries, r)
       IN  snap' = [snap EXCEPT
                      !.outs = Append(@, r),
                      !.attempt = t.attempt,
                      !.fetched = IF t.then = "return" THEN "returned"
                                  ELSE IF t.then = "raise" THEN "raised" ELSE @,
                      !.data = IF t.then = "return" THEN r.data ELSE @,
                      !.errors = IF t.then = "raise" THEN @ + 1 ELSE @,
                      !.fetch_raises = IF t.then = "raise" THEN @ + 1 ELSE @,
                      !.pc = IF t.then = "return" THEN "store"
                             ELSE IF t.then = "raise" THEN "monitor" ELSE "backoff"]
    /\ UNCHANGED <<lockVars, storeVars, gd, runs, schedVars, bf>>

\* await asyncio.sleep(backoff) is over
BackoffOver ==
    /\ snap.pc = "backoff"
    /\ snap' = [snap EXCEPT !.pc = "fetch", !.now = @ + Backoff(snap.attempt)]
    /\ UNCHANGED <<lockVars, storeVars, gd, runs, schedVars, bf>>

\* await store_market_snapshots(data) commits or raises
StoreSnapshots(ok) ==
    /\ snap.pc = "store"
    /\ snapshots' = IF ok THEN store_market_snapshots(snapshots, snap.data, snap.now)
                    ELSE snapshots
    /\ snap' = [snap EXCEPT !.pc = "monitor",
                            !.last_success_utc = IF ok THEN snap.now ELSE @,
                            !.errors = IF ok THEN @ ELSE @ + 1]
    /\ UNCHANGED <<lockVars, candles, op, gd, runs, schedVars, bf>>

\* await _warn_if_stale(...) inside its own try/except
WarnIfStale ==
    /\ snap.pc = "monitor"
    /\ snap' = [snap EXCEPT !.pc = "sleep"]
    /\ UNCHANGED <<lockVars, storeVars, gd, runs, schedVars, bf>>

\* the stop-aware sleep times out
SleepOver ==
    /\ snap.pc = "sleep"
    /\ snap' = [snap EXCEPT !.pc = "head", !.cycle = @ + 1,
                            !.now = @ + SNAPSHOT_INTERVAL_SECONDS]
    /\ UNCHANGED <<lockVars, storeVars, gd, runs, schedVars, bf>>

\* stop_snapshot_collector(): set the event, cancel the task and await it;
\* CancelledError is no Exception, so no except clause of the loop holds it
StopSnapshotCollector ==
    /\ snap.pc \in {"head", "fetch", "backoff", "store", "monitor", "sleep"}
    /\ snap' = [snap EXCEPT !.pc = "cancelled", !.stop = TRUE]
    /\ UNCHANGED <<lockVars, storeVars, gd, runs, schedVars, bf>>

InitSnap ==
    /\ snap \in {[NoSnap EXCEPT !.pc = "head", !.max_retries = m] : m \in RetrySettings}
    /\ candles = <<>> /\ snapshots = {} /\ op = NoOp /\ gd = NoCall /\ runs = NoRuns
    /\ lock_file = NoFile /\ acq = [p \in Procs |-> AcqIdle]
    /\ SchedulerState /\ bf = NoBackfill

NextSnap ==
    \/ SnapLoopHead
    \/ \E r \in FeedResults : FeedCall(r)
    \/ BackoffOver
    \/ \E ok \in BOOLEAN : StoreSnapshots(ok)
    \/ WarnIfStale
    \/ SleepOver
    \/ StopSnapshotCollector

\* the event loop keeps running the task: every await of the loop comes back
\* until the collector is stopped or the followed cycles are over
SnapAtRest == snap.pc \in {"cancelled", "stopped"} \/ (snap.pc = "head" /\ snap.cycle >= MaxCycles)
SnapFairness == []<>SnapAtRest \/ []<><<NextSnap>>_vars

SpecSnap == InitSnap /\ [][NextSnap]_vars /\ SnapFairness

(***************************************************************************)
(* Properties                                                              *)
(***************************************************************************)
\* C1: when two live processes have both finished acquire() on the same lock
\* path, exactly one of the two calls has returned true.
LockExclusivity ==
    (\A p \in Procs : acq[p].pc = "done")
        => Cardinality({p \in Procs : acq[p].ret}) = 1

\* C2: at any moment at most one task is inside an ingestion run of a job, so a
\* run of a job starts only after the run before it has ended.
JobSerialized ==
    \A job \in Jobs : Cardinality({g \in Gens : task[<<job, g>>].pc = "run"}) <= 1

\* start_scheduler has been called while stop_scheduler awaits a run in flight
JobSerializedWitness ==
    /\ stop_call.pc = "await" /\ running
    /\ \E t \in stop_call.tasks : task[t].pc = "run"

CandleKey == {"coin", "interval", "ts"}
Collides(tab, rows) ==
    \E i \in 1..Len(tab), k \in 1..Len(rows) :
        Proj(tab[i], CandleKey) = Proj(CandleValues(rows[k]), CandleKey)

\* C3 (I1): whatever ingestion runs, fills and upserts have been executed, no
\* two stored candle rows share (coin, interval, ts).
UniqueCandleKeys ==
    \A i, j \in 1..Len(candles) :
        i # j => Proj(candles[i], CandleKey) # Proj(candles[j], CandleKey)

\* a write aimed at a key that is already stored has been executed
UniqueCandleKeysWitness ==
    /\ Len(candles) >= 2
    /\ op.name \in {"upsert", "add_all"}
    /\ Collides(op.before, op.rows)

IsSetList(q) == \A i, j \in 1..Len(q) : i # j => q[i] # q[j]
InGap(g, t) == g[1] <= t /\ t < g[2]
\* a finished call on a duplicate-free list and a range that starts on a boundary
AlignedCall ==
    /\ gd.pc = "done"
    /\ IsSetList(gd.open_times)
    /\ gd.start_epoch % gd.step_seconds = 0

\* C4: for a set S of aligned timestamps and a range [a,b), detect_gaps returns
\* the empty list if and only if every interval boundary in [a,b) is in S.
GapEmptiness ==
    AlignedCall =>
        /\ gd.out.err = "none"
        /\ gd.out.gaps = <<>> <=>
              Boundaries(gd.start_epoch, gd.end_epoch, gd.step_seconds)
                  \subseteq Range(gd.open_times)

\* C5: the gaps detect_gaps returns are ascending, pairwise disjoint and not
\* touching, lie inside [a,b), contain no boundary of S, and every boundary of
\* [a,b) is either in S or in exactly one gap.
GapPartition ==
    AlignedCall =>
        LET g == gd.out.gaps
            S == Range(gd.open_times)
        IN  /\ gd.out.err = "none"
            /\ \A i \in 1..Len(g) :
                  gd.start_epoch <= g[i][1] /\ g[i][1] < g[i][2] /\ g[i][2] <= gd.end_epoch
            /\ \A i \in 1..(Len(g) - 1) : g[i][2] < g[i + 1][1]
            /\ \A i \in 1..Len(g) : \A t \in S : ~InGap(g[i], t)
            /\ \A t \in Boundaries(gd.start_epoch, gd.end_epoch, gd.step_seconds) :
                  IF t \in S THEN \A i \in 1..Len(g) : ~InGap(g[i], t)
                  ELSE Cardinality({i \in 1..Len(g) : InGap(g[i], t)}) = 1

\* the report execute_backfill starts from
InitialReport ==
    generate_gap_report(candles, bf.coin, bf.interval,
                        Aware(ClampedStart(bf.start_ts, bf.end_ts), 0), Aware(bf.end_ts, 0))
\* the caps leave room for every gap: no more gaps than max_gaps, and the
\* candles missing in all gaps but the last are fewer than max_candles
WithinCaps(report, max_gaps, max_candles) ==
    /\ Len(report.gaps) <= max_gaps
    /\ SumSeq([i \in 1..(Len(report.gaps) - 1) |-> report.gaps[i].missing_candles])
          < max_candles
Completed == bf.pc = "returned" /\ bf.result.completed /\ bf.result.remaining_gaps.none

\* C6 (as stated): with a collaborator that fills the gap it is asked to fill,
\* execute_backfill returns completed = true and remaining_gaps = null.
BackfillConvergesAlways ==
    (bf.pc = "returned" /\ bf.kind = "fill")
        => (bf.result.completed /\ bf.result.remaining_gaps.none)

\* C6 (amended): with a collaborator that fills the gap it is asked to fill, a
\* range whose start, after the lookback clamp, lies on an interval boundary
\* and caps that leave room for every gap of the range, execute_backfill
\* terminates with completed = true and remaining_gaps = null.
BackfillConverges ==
    (bf.pc = "called" /\ bf.kind = "fill"
       /\ ClampedStart(bf.start_ts, bf.end_ts) % get_interval_seconds(bf.interval) = 0
       /\ WithinCaps(InitialReport, bf.max_gaps, bf.max_candles)) ~> Completed

\* a run that filled two gaps, one per iteration, and completed
BackfillConvergesWitness ==
    /\ Completed /\ bf.kind = "fill"
    /\ bf.iterations = 2 /\ bf.gaps_fixed = 2

\* C7: with a collaborator that always inserts 0 rows and a range that has a
\* gap, execute_backfill terminates with completed = false, gaps_fixed = 0 and a
\* remaining_gaps that is not null.
NoProgressTerminates ==
    (bf.pc = "called" /\ bf.kind = "zero" /\ gap_count(InitialReport) > 0)
        ~> (/\ bf.pc = "returned"
            /\ ~bf.result.completed
            /\ bf.result.gaps_fixed = 0
            /\ ~bf.result.remaining_gaps.none)

\* the zero-row collaborator has been called once and the run has returned
NoProgressTerminatesWitness ==
    /\ bf.pc = "returned" /\ bf.kind = "zero" /\ bf.calls = 1
    /\ ~bf.result.completed /\ gap_count(bf.result.remaining_gaps.report) > 0

UpsertOnCollision ==
    (op.name = "upsert" /\ Len(op.rows) = 1 /\ Collides(op.before, op.rows)) =>
        LET v == CandleValues(op.rows[1])
        IN  /\ op.err = "none"
            /\ Len(candles) = Len(op.before)
            /\ \A i \in 1..Len(op.before) :
                  /\ Proj(candles[i], CandleKey) = Proj(op.before[i], CandleKey)
                  /\ Proj(op.before[i], CandleKey) = Proj(v, CandleKey)
                        => Proj(candles[i], OhlcvFields) = Proj(v, OhlcvFields)

\* C10: ensure_no_gaps fails with DataIncompleteError carrying the report of the
\* range exactly when that report has gap_count > 0, and otherwise returns the
\* report, which is then empty.
CompletenessGate ==
    op.name = "ensure_no_gaps" =>
        LET report == generate_gap_report(candles, op.coin, op.interval,
                                          Aware(op.start, 0), Aware(op.end, 0))
        IN  /\ op.report = report
            /\ op.err \in {"none", "DataIncompleteError"}
            /\ op.err = "DataIncompleteError" <=> gap_count(report) > 0
            /\ op.err = "none" => op.report.gaps = <<>>

\* the gate has rejected a range of a store that holds candles
CompletenessGateWitness ==
    /\ op.name = "ensure_no_gaps" /\ op.err = "DataIncompleteError"
    /\ gap_count(op.report) >= 1
    /\ \E i \in 1..Len(candles) : candles[i].coin = op.coin /\ candles[i].interval = op.interval
                                  /\ op.start <= candles[i].ts /\ candles[i].ts < op.end

\* C11: a call of _acquire_lock that meets a lock file recording the pid of
\* a process that is not alive, while no other process has entered
\* _acquire_lock, returns True with the file removed and created again, now
\* recording the caller's payload
StaleReclaimed ==
    \A p \in Procs :
        ( /\ acq[p].pc = "done"
          /\ acq[p].found = StaleFile
          /\ \A q \in Procs \ {p} : acq[q] = AcqIdle )
        => /\ acq[p].ret
           /\ acq[p].creates = 2
           /\ lock_file = [exists |-> TRUE, creator |-> p, written |-> TRUE, pid |-> p]

StaleReclaimedWitness ==
    \E p \in Procs :
        /\ acq[p].pc = "done"
        /\ acq[p].found = StaleFile
        /\ \A q \in Procs \ {p} : acq[q] = AcqIdle
        /\ acq[p].ret
        /\ lock_file.pid = p

\* the lock file records the pid of a live process other than this one
HeldElsewhere ==
    /\ lock_file.exists /\ lock_file.written
    /\ lock_file.pid # Self /\ _pid_alive(lock_file.pid)

\* C12: when the lock file records the pid of a live process other than the
\* caller, _acquire_lock returns False and leaves the file as it is, and
\* start_scheduler returns None: it creates no task and changes nothing of
\* the scheduler state
LockContention ==
    [][ (start_scheduler /\ HeldElsewhere)
        => /\ ~AcquireLockCall(lock_file, Self).ok
           /\ AcquireLockCall(lock_file, Self).file = lock_file
           /\ start_ret' = "refused"
           /\ UNCHANGED <<lock_file, tasks, task, locks, job_stats, started,
                          stop_event, gen, lock_path>> ]_vars

LockContentionWitness ==
    /\ HeldElsewhere
    /\ start_ret = "refused"
    /\ \A t \in TaskIds : task[t] = NoTask

\* the run of task t ends with an exception raised by _run_ingestion
RunFails(t) ==
    \E transient, overrun \in BOOLEAN :
        /\ RunEnds(t, transient, overrun)
        /\ transient \/ ingest_latest(candles, snapshots, t[1][1], t[1][2]).err # "none"

\* C13: when the run of a job raises while the scheduler has not been told
\* to stop, the scheduler stays running, the tasks and the stats of all
\* other jobs are untouched, and the task of the failing job stays in its
\* loop: it waits for its next tick or runs again, and its next tick starts
\* a run
FailureIsolation ==
    [][ \A t \in TaskIds :
          (RunFails(t) /\ task[t].ev \notin ev_set)
          => /\ UNCHANGED <<started, stop_event, ev_set, tasks, locks>>
             /\ \A u \in TaskIds \ {t} : task'[u] = task[u]
             /\ \A j \in Jobs \ {t[1]} : job_stats'[j] = job_stats[j]
             /\ task'[t].pc \in {"wait", "run"}
             /\ LoopHead(t, ev_set', job_stats', TRUE) = "run" ]_vars

FailureIsolationWitness ==
    \E t, u \in TaskIds :
        /\ t[1] # u[1]
        /\ running
        /\ job_stats[t[1]].consecutive_failures = 1
        /\ task[t].pc = "wait" /\ task[t].ev \notin ev_set
        /\ job_stats[u[1]] = FreshStats
        /\ task[u].pc = "run"

\* the run of task t ends without an exception
RunSucceeds(t, overrun) ==
    /\ RunEnds(t, FALSE, overrun)
    /\ ingest_latest(candles, snapshots, t[1][1], t[1][2]).err = "none"

\* C14: consecutive_failures of a job is the number of its failed runs since
\* its last successful run, or since its stats were created: 0 at first and
\* after a success, one more after each failure; last_error holds at most
\* 300 characters; a success records the inserted count and the duration
HealthCounter ==
    /\ [](\A j \in Jobs :
            /\ job_stats[j].consecutive_failures = job_stats[j].failed_since
            /\ job_stats[j].last_error_len <= 300)
    /\ [][ \A t \in TaskIds :
             /\ (RunFails(t) /\ job_stats[t[1]].present)
                => /\ job_stats'[t[1]].consecutive_failures
                         = job_stats[t[1]].consecutive_failures + 1
                   /\ job_stats'[t[1]].last_error # "none"
             /\ \A overrun \in BOOLEAN :
                   (RunSucceeds(t, overrun) /\ job_stats[t[1]].present)
                   => /\ job_stats'[t[1]].consecutive_failures = 0
                      /\ job_stats'[t[1]].last_success_inserted
                            = ingest_latest(candles, snapshots, t[1][1], t[1][2]).n
                      /\ job_stats'[t[1]].last_success_ms = RunMs(t[1][2], overrun) ]_vars

HealthCounterWitness ==
    \E j \in Jobs :
        /\ job_stats[j].present
        /\ job_stats[j].consecutive_failures = MaxFailures
        /\ job_stats[j].last_error_len > 0
        /\ job_stats[j].last_success_inserted = 0
        /\ job_stats[j].last_success_ms > 1

\* stop_scheduler returns, having found the scheduler started
StopReturned ==
    \/ StopReturns
    \/ StopBegin /\ started /\ stop_call' = StopIdle

\* C15: when stop_scheduler returns after it found the scheduler started, no
\* task is left that runs or can run again, the task, lock and stats tables
\* are empty, started is false, the handle reports running = False and the
\* lock file is gone
ShutdownPostState ==
    [][ StopReturned
        => /\ \A t \in TaskIds : task'[t].pc \in {"none", "done", "failed", "cancelled"}
           /\ \A j \in Jobs : tasks'[j] = 0 /\ locks'[j] = 0 /\ ~job_stats'[j].present
           /\ ~started'
           /\ ~running'
           /\ ~lock_file'.exists ]_vars

ShutdownPostStateWitness ==
    /\ gen > 0 /\ ~started /\ stop_call = StopIdle
    /\ \E t, u \in TaskIds : task[t].pc = "done" /\ task[u].pc = "cancelled"
    /\ \A j \in Jobs : tasks[j] = 0
    /\ ~lock_file.exists

\* C16: once the invariant check made after a fill step has found a
\* duplicate key, execute_backfill has returned a result with completed =
\* False, the current gap report as remaining_gaps and the invariant error,
\* having made no ingestion call after that fill step
InvariantAbort ==
    ( /\ bf.calls > 0
      /\ bf.raised \in {"none", "AssertionError"}
      /\ verify_candle_invariants(candles, TRUE).err # "none" )
    => /\ bf.pc = "returned"
       /\ bf.calls = 1
       /\ ~bf.result.completed
       /\ bf.result.remaining_gaps = [none |-> FALSE, report |-> bf.current_report]
       /\ bf.result.error = "AssertionError"

\* every gap of the report misses exactly one candle
OneCandleGaps(report) ==
    \A i \in 1..Len(report.gaps) : report.gaps[i].missing_candles = 1

CollideWithin(rows) ==
    \E i, k \in 1..Len(rows) :
        i # k /\ Proj(CandleValues(rows[i]), CandleKey) = Proj(CandleValues(rows[k]), CandleKey)

\* C18: the commit of a raw insert holding a row whose (coin, interval, ts)
\* is that of another row of the commit or of a stored row fails with
\* IntegrityError, and afterwards the store holds no key twice: it is as it
\* was before the commit
RawInsertUniqueness ==
    (op.name = "add_all" /\ (CollideWithin(op.rows) \/ Collides(op.before, op.rows)))
    => /\ op.err = "IntegrityError"
       /\ Duplicates(candles) = {}
       /\ candles = op.before

\* two rows with one key and different values have been committed together
\* on a store that holds a row with another key
RawInsertUniquenessWitness ==
    /\ op.name = "add_all" /\ op.err = "IntegrityError"
    /\ Len(candles) = 1
    /\ CollideWithin(op.rows) /\ ~Collides(op.before, op.rows)
    /\ op.rows[1].open # op.rows[2].open

\* the series in which a row inserted later has an earlier ts than a row
\* inserted before it
OutOfOrderSeries(tab) ==
    {Proj(tab[i], {"coin", "interval"}) :
        i \in {k \in 1..Len(tab) :
                 \E m \in (k + 1)..Len(tab) :
                     /\ Proj(tab[m], {"coin", "interval"}) = Proj(tab[k], {"coin", "interval"})
                     /\ tab[m].ts < tab[k].ts}}

\* C19: when a series holds a row inserted after a row with a later ts,
\* verify_candle_invariants(strict=False) returns a non_monotonic list that
\* names the series, and verify_candle_invariants(strict=True) raises
\* AssertionError
NonMonotonicDetection ==
    (op.name = "verify" /\ OutOfOrderSeries(candles) # {})
    => IF op.strict
       THEN op.err = "AssertionError"
       ELSE \A sr \in OutOfOrderSeries(candles) :
               \E f \in op.findings.non_monotonic :
                   f.coin = sr.coin /\ f.interval = sr.interval

StoppedOnlyByShutdown ==
    /\ [](\A t \in TaskIds :
            /\ Finished(t) => task[t].ev \in ev_set
            /\ task[t].pc = "cancelled" => task[t].cancel)
    /\ [][ \A t \in TaskIds :
             \A transient, overrun \in BOOLEAN :
                (RunEnds(t, transient, overrun) /\ task[t].ev \notin ev_set)
                => task'[t].pc \in {"wait", "run"} ]_vars

\* after a stop: one task has left its loop at the loop head, one has died
\* in its except branch because its stats entry was gone
StoppedOnlyByShutdownWitness ==
    \E t, u \in TaskIds :
        /\ task[t].pc = "done" /\ task[u].pc = "failed"
        /\ task[t].ev \in ev_set /\ task[u].ev \in ev_set

\* C22: the result of a detect_gaps call is the result of the call on any
\* other list that holds the same timestamps, in any order and with any
\* repetition
OrderIndependence ==
    gd.pc = "done"
    => \A ot \in OpenTimeLists :
          Range(ot) = Range(gd.open_times)
          => detect_gaps(ot, gd.step_seconds, gd.start_epoch, gd.end_epoch) = gd.out

\* C23  Empty range report: detect_gaps over a non-empty range [a, b) for
\* which the store query returned no open time yields exactly one gap, [a, b),
\* and the missing_candles the report derives for it is (b - a) / step_seconds.
EmptyRangeCall ==
    /\ gd.pc = "done"
    /\ gd.start_epoch < gd.end_epoch
    /\ gd.open_times = <<>>
ChecksReadOnly ==
    /\ [](op.name = "ensure_no_gaps" => candles = op.before)
    /\ [][op'.name = "ensure_no_gaps" => candles' = candles /\ snapshots' = snapshots]_vars
\* a raising check right after a write that left rows in the store
ChecksReadOnlyWitness ==
    /\ op.name = "ensure_no_gaps"
    /\ op.err = "DataIncompleteError"
    /\ candles # <<>>
    /\ \E i \in 1..Len(candles) : candles[i].coin = op.coin /\ candles[i].interval = op.interval

\* C25  Bounded fetch retry: one _fetch_with_retries call makes at most
\* SNAPSHOT_MAX_RETRIES + 1 feed calls, every call before the last one failed,
\* it returns the payload of the first call that succeeds, it raises exactly
\* when SNAPSHOT_MAX_RETRIES + 1 calls have failed, and the loop catches that
\* failure and, unless the collector is stopped, begins its next cycle.
AllFailed(outs) == \A i \in 1..Len(outs) : ~outs[i].ok
BoundedFetchRetry ==
    /\ [](/\ Len(snap.outs) <= snap.max_retries + 1
          /\ \A i \in 1..(Len(snap.outs) - 1) : ~snap.outs[i].ok
          /\ snap.fetched = "returned"
             => /\ snap.outs[Len(snap.outs)].ok
                /\ snap.data = snap.outs[Len(snap.outs)].data
          /\ snap.fetched = "raised"
             <=> (Len(snap.outs) = snap.max_retries + 1 /\ AllFailed(snap.outs))
          /\ snap.fetched = "none" /\ snap.pc \in {"fetch", "backoff"}
             => AllFailed(snap.outs) /\ Len(snap.outs) = snap.attempt)
    /\ [][snap'.fetched = "raised" /\ snap.fetched # "raised" => snap'.pc = "monitor"]_vars
    /\ \A k \in 0..(MaxCycles - 2) :
          (snap.fetched = "raised" /\ snap.cycle = k)
          ~> (snap.stop \/ (snap.cycle = k + 1 /\ snap.pc = "fetch"))
\* a cycle whose fetch raised after the default six failed calls, followed by a
\* cycle whose fetch returned on a retry
BoundedFetchRetryWitness ==
    /\ snap.max_retries = SNAPSHOT_MAX_RETRIES
    /\ snap.fetch_raises = 1 /\ snap.cycle = 1
    /\ snap.fetched = "returned" /\ Len(snap.outs) = 2

\* C26  Shutdown always completes: a stop_scheduler call that waits for its
\* tasks returns, whether or not their ingestion runs ever end; when the
\* bounded wait times out every task of the call that is not done is
\* cancelled, and stop_scheduler then waits for cancelled tasks only.
ShutdownCompletes ==
    /\ (stop_call.pc = "await") ~> (stop_call.pc = "idle" /\ ~started)
    /\ [][StopTimeout => \A t \in stop_call.tasks : ~Finished(t) => task'[t].cancel]_vars
    /\ [](stop_call.pc = "cancelling"
          => \A t \in stop_call.tasks : Finished(t) \/ task[t].cancel)
\* the bounded wait is over and a run that has not ended is being cancelled
ShutdownCompletesWitness ==
    /\ stop_call.pc = "cancelling"
    /\ \E t \in stop_call.tasks : task[t].pc = "run" /\ task[t].cancel

\* C27  Single retry on stale lock: one call of _acquire_lock makes at most
\* two os.open attempts, whatever the other processes do to the lock file
\* in the meantime.
SingleRetry == \A p \in Procs : acq[p].creates <= 2

\* C28  Non-convergence guard: a fill step that inserted candles is followed
\* by a gap report over the whole requested range, which becomes the current
\* report; when a fill step leaves the whole range with no fewer gaps than
\* the report before it had, the loop is left, and once the loop is left no
\* ingestion call is made in that run.
FullRangeReport(tab) ==
    generate_gap_report(tab, bf.coin, bf.interval, Aware(bf.start_ts, 0), Aware(bf.end_ts, 0))
NonConvergenceGuard ==
    /\ [][ (bf.pc = "loop" /\ bf'.calls = bf.calls + 1)
           => /\ bf'.iterations = bf.iterations + 1
                 => bf'.current_report = FullRangeReport(candles')
              /\ Len(FullRangeReport(candles').gaps) >= Len(bf.current_report.gaps)
                 => bf'.pc \in {"after", "raised"} ]_vars
    /\ [][ bf.pc \in {"after", "returned", "raised"} => bf'.calls = bf.calls ]_vars
\* a run that the guard stopped: candles were inserted in every iteration,
\* gaps remain and neither cap is reached
NonConvergenceGuardWitness ==
    /\ bf.pc = "returned"
    /\ bf.iterations >= 1 /\ bf.calls = bf.iterations
    /\ bf.current_report.gaps # <<>>
    /\ bf.iterations < bf.max_gaps /\ bf.candles_added < bf.max_candles

\* C29  Backfill always terminates: every execute_backfill call returns or
\* raises, it has made at most max_gaps ingestion calls, and once it has ended
\* it changes nothing any more.
BackfillEnded == bf.pc \in {"returned", "raised"}
BackfillTerminates ==
    /\ [](bf.calls <= bf.max_gaps)
    /\ (bf.pc = "called") ~> BackfillEnded
    /\ [][BackfillEnded => bf' = bf /\ candles' = candles]_vars
\* a run that used up its ingestion calls while gaps remained
BackfillTerminatesWitness ==
    /\ bf.pc = "returned"
    /\ bf.max_gaps = 2 /\ bf.calls = bf.max_gaps
    /\ ~bf.result.completed

\* C30  Cap flags name the stopping reason: in the result of a run that went
\* through the loop, gap_limit is set exactly when the while condition ended
\* the loop with gaps remaining and iterations at max_gaps, candle_limit exactly
\* when it ended it with gaps remaining and candles_added at max_candles, and a
\* run whose loop was left by the no-progress or the non-convergence break has
\* neither flag set.
CapFlagsNameReason ==
    (bf.pc = "returned" /\ bf.left # "none")
    => LET gaps_remain == bf.current_report.gaps # <<>>
       IN  /\ bf.result.caps_hit.gap_limit
              <=> (bf.left = "condition" /\ gaps_remain /\ bf.iterations >= bf.max_gaps)
           /\ bf.result.caps_hit.candle_limit
              <=> (bf.left = "condition" /\ gaps_remain
                   /\ bf.candles_added >= bf.max_candles)
           /\ bf.left \in {"no_progress", "non_convergence"}
              => ~bf.result.caps_hit.gap_limit /\ ~bf.result.caps_hit.candle_limit

\* C31  Authoritative result: in every result execute_backfill returns,
\* completed is true exactly when the store, as it is at the return, has no
\* gap in the clamped range, and remaining_gaps is null exactly when completed
\* is true.
AuthoritativeResult ==
    bf.pc = "returned"
    => /\ bf.result.completed <=> ~gaps_found(FullRangeReport(candles))
       /\ bf.result.remaining_gaps.none <=> bf.result.completed
\* a run that made ingestion calls and whose final gate found no gap
AuthoritativeResultWitness ==
    /\ bf.pc = "returned" /\ bf.calls >= 1
    /\ bf.result.completed /\ bf.result.remaining_gaps.none

\* C32  Cap on candles: the candles_added of every result execute_backfill
\* returns is at most max_candles.
CandleCap ==
    bf.pc = "returned" => bf.result.candles_added <= bf.max_candles

\* C33  Earliest gap first: every loop iteration calls the ingestion
\* collaborator exactly once, with the start and the end of the earliest gap
\* of the current report; the collaborator is called nowhere else.
EarliestGap(report) ==
    CHOOSE g \in Range(report.gaps) : \A h \in Range(report.gaps) : g.start <= h.start
EarliestGapFirst ==
    /\ [](Len(bf.called_with) = bf.calls /\ bf.iterations <= bf.calls)
    /\ [][ bf'.called_with # bf.called_with
           => /\ bf.pc = "loop"
              /\ bf'.called_with =
                   Append(bf.called_with, <<EarliestGap(bf.current_report).start,
                                            EarliestGap(bf.current_report).end>>)
              /\ bf'.iterations \in {bf.iterations, bf.iterations + 1} ]_vars
    /\ [][ bf'.iterations # bf.iterations
           => bf'.iterations = bf.iterations + 1 /\ bf'.calls = bf.calls + 1 ]_vars
\* a second iteration that was given the later of two gaps, by then the earliest
EarliestGapFirstWitness ==
    /\ bf.pc = "returned" /\ Len(bf.called_with) = 2
    /\ bf.called_with[1][1] < bf.called_with[2][1]
    /\ bf.called_with[1][2] <= bf.called_with[2][1]

\* C34  No-gap early return: a call whose first report over the clamped range
\* has no gap returns at once with completed = true, gaps_fixed = 0 and
\* candles_added = 0, having made no ingestion call and leaving the store as
\* it was; a run that returned completed leaves a store on which the same
\* call takes this early return.
NoGapEarlyReturn ==
    /\ [][ (bf.pc = "called" /\ ~gaps_found(InitialReport))
           => /\ bf'.pc = "returned"
              /\ bf'.result.completed /\ bf'.result.remaining_gaps.none
              /\ bf'.result.gaps_fixed = 0 /\ bf'.result.candles_added = 0
              /\ bf'.calls = 0 /\ bf'.called_with = <<>>
              /\ candles' = candles ]_vars
    /\ [](bf.pc = "returned" /\ bf.result.completed
          => ~gaps_found(FullRangeReport(candles)))
\* the early return on a store that holds candles
NoGapEarlyReturnWitness ==
    /\ bf.pc = "returned" /\ bf.left = "none" /\ bf.calls = 0
    /\ bf.result.completed /\ candles # <<>>
\* C35 as stated: once execute_backfill has passed its clamp, a requested span
\* longer than the maximum lookback has been cut to [end - max_window, end)
\* with window_limit set, any other span is unchanged with window_limit
\* clear, the result reports that start and flag, and no ingestion call
\* targets a time before the clamped start.
ClampApplied ==
    LET max_window == MAX_LOOKBACK_DAYS * 86400
        exceeds == bf.end_ts - bf.requested > max_window
    IN  bf.pc \in {"loop", "after", "returned"}
        => /\ bf.start_ts = (IF exceeds THEN bf.end_ts - max_window ELSE bf.requested)
           /\ bf.caps_hit.window_limit = exceeds
           /\ bf.pc = "returned"
              => /\ bf.result.start_ts = bf.start_ts
                 /\ bf.result.end_ts = bf.end_ts
                 /\ bf.result.caps_hit.window_limit = exceeds

AlignedGapBoundaries ==
    gd.pc = "done" /\ gd.out.err = "none"
    => \A i \in 1..Len(gd.out.gaps) :
          \A k \in 1..2 :
             \/ gd.out.gaps[i][k] % gd.step_seconds = 0
             \/ gd.out.gaps[i][k] = gd.end_epoch

StoredKeys(tab) == {Proj(tab[i], CandleKey) : i \in 1..Len(tab)}

\* C37: across every sequence of ingestion runs, fills, upserts and
\* completeness checks, every (coin, interval, ts) key in the candle store
\* before a step is in the store after it: the key set only grows.
CandlesNeverDeleted ==
    [][StoredKeys(candles) \subseteq StoredKeys(candles')]_vars

\* a write on a non-empty store has added keys and kept the ones it found
CandlesNeverDeletedWitness ==
    /\ op.name \in {"add_all", "ingest_range"}
    /\ op.before # <<>>
    /\ StoredKeys(op.before) \subseteq StoredKeys(candles)
    /\ StoredKeys(candles) # StoredKeys(op.before)

\* C38: a process whose start_scheduler was refused because another live
\* process owns the lock holds no lock path of its own, and neither the
\* refused call nor any later step of that process (a stop_scheduler call
\* included) removes or rewrites the lock file: while the last start stays
\* refused the file changes only when its owner releases it.
RefusedNeverTouchesLock ==
    /\ [](start_ret = "refused" => ~lock_path /\ ~started)
    /\ [][start_ret' = "refused"
          => \/ lock_file' = lock_file
             \/ /\ lock_file = ForeignFile /\ lock_file' = NoFile
                /\ UNCHANGED schedVars]_vars

\* start_scheduler has been refused and the lock is still its owner's
RefusedNeverTouchesLockWitness ==
    /\ start_ret = "refused"
    /\ lock_file = ForeignFile
    /\ stop_call.pc = "idle" /\ ~started

\* start_scheduler of process p got True from _acquire_lock and set
\* _state.started with a fresh stop Event (no await in between); its
\* stop_scheduler has not run
SchedulerRunning(p) == acq[p].pc = "done" /\ acq[p].ret

\* C39: in every reachable state, whatever the interleaving of the processes,
\* each process whose scheduler is running has a lock file in place that
\* records its own pid; hence at most one process has a running scheduler.
RunningOwnsLock ==
    /\ \A p \in Procs :
          SchedulerRunning(p)
          => lock_file.exists /\ lock_file.written /\ lock_file.pid = p
    /\ Cardinality({p \in Procs : SchedulerRunning(p)}) <= 1

\* C40: whenever the scheduler reports running, the task table, the per-job
\* lock table and the job-stat table hold an entry for exactly the configured
\* jobs, and every job task that has not ended finds the job-stat entry of
\* its job; also after a start_scheduler call made while already running or
\* while stop_scheduler awaits runs in flight.
JobTablesConsistent ==
    running
    => /\ \A j \in Jobs : tasks[j] # 0 /\ locks[j] # 0 /\ job_stats[j].present
       /\ \A t \in TaskIds :
             task[t].pc \in {"new", "wait", "run"} => job_stats[t[1]].present

====
